---- MODULE Spec2Model ----
(***************************************************************************)
(* Dinox sync plugin: the pull-sync orchestrator (syncNotes), the remote   *)
(* fetch, and the per-note reconciler (processApiResponse /                *)
(* handleNoteProcessing) over a model of the vault.                        *)
(*                                                                         *)
(* Strings that the code slices, trims or rewrites (note ids, titles,      *)
(* dates, file names) are sequences of one-character strings.  A vault     *)
(* path is a sequence of segments; a segment is a record holding the name, *)
(* the collision suffix appended by resolveUniqueNotePath and whether the  *)
(* segment ends in ".md".                                                   *)
(***************************************************************************)
EXTENDS Integers, Sequences, FiniteSets, TLC

\* ------------------------------------------------------------------ bounds
MaxCalls == 2
MaxTime == 2
MaxPasses == 2
MaxUserOps == 1

Calls == 1 .. MaxCalls

\* --------------------------------------------------------- program constants
\* resolveUniqueNotePath tries this many suffixed candidates
MaxSuffixAttempts == 50
\* length of the id prefix used in the collision suffix
ShortIdLen == 8
\* sanitizeFilename caps the file name at this length
MaxFilenameLen == 100
\* the clock of the model counts half seconds; formatDate keeps whole seconds
TicksPerSecond == 2

\* ------------------------------------------------------------ string helpers
RECURSIVE TrimLeft(_)
TrimLeft(s) ==
    IF s # <<>> /\ Head(s) = " " THEN TrimLeft(Tail(s)) ELSE s

RECURSIVE TrimRight(_)
TrimRight(s) ==
    IF s # <<>> /\ s[Len(s)] = " " THEN TrimRight(SubSeq(s, 1, Len(s) - 1)) ELSE s

\* String.prototype.trim
Trim(s) == TrimRight(TrimLeft(s))

\* s.slice(0, n)
Take(s, n) == IF Len(s) <= n THEN s ELSE SubSeq(s, 1, n)

\* sourceId.replace(/-/g, "_")
DashesToUnderscores(s) == [i \in 1 .. Len(s) |-> IF s[i] = "-" THEN "_" ELSE s[i]]

\* noteId.replace(/-/g, "")
StripDashes(s) == SelectSeq(s, LAMBDA ch : ch # "-")

IllegalFilenameChars == {"\\", "/", ":", "*", "?", "\"", "<", ">", "|", "#", "^", "[", "]"}

RECURSIVE CollapseDashRuns(_)
\* name.replace(/[\s-]+/g, "-")
CollapseDashRuns(s) ==
    IF s = <<>> THEN <<>>
    ELSE IF Head(s) \in {" ", "-"}
         THEN IF Len(s) > 1 /\ s[2] \in {" ", "-"}
              THEN CollapseDashRuns(Tail(s))
              ELSE <<"-">> \o CollapseDashRuns(Tail(s))
         ELSE <<Head(s)>> \o CollapseDashRuns(Tail(s))

RECURSIVE StripLeadingDashes(_)
StripLeadingDashes(s) ==
    IF s # <<>> /\ Head(s) = "-" THEN StripLeadingDashes(Tail(s)) ELSE s

RECURSIVE StripTrailingDashes(_)
StripTrailingDashes(s) ==
    IF s # <<>> /\ s[Len(s)] = "-"
    THEN StripTrailingDashes(SubSeq(s, 1, Len(s) - 1)) ELSE s

Untitled == <<"U", "n", "t", "i", "t", "l", "e", "d">>

sanitizeFilename(name) ==
    IF name = <<>> THEN Untitled
    ELSE LET replaced == [i \in 1 .. Len(name) |->
                            IF name[i] \in IllegalFilenameChars THEN "-" ELSE name[i]]
             collapsed == CollapseDashRuns(replaced)
             stripped == StripTrailingDashes(StripLeadingDashes(Trim(collapsed)))
             capped == Take(stripped, MaxFilenameLen)
         IN IF capped = <<".">> \/ capped = <<".", ".">> \/ capped = <<>>
            THEN Untitled ELSE capped

\* ------------------------------------------------------------------- values
\* A frontmatter or JSON scalar: a tagged value.
Undefined == [t |-> "undef", v |-> <<>>]
StrVal(s) == [t |-> "str", v |-> s]
NumVal(s) == [t |-> "num", v |-> s]
BoolTrue == [t |-> "bool", v |-> <<"1">>]
BoolFalse == [t |-> "bool", v |-> <<"0">>]

\* ------------------------------------------------------------------- paths
NoSuffix == [id |-> <<>>, n |-> 0]
FolderSeg(name) == [name |-> name, sfx |-> NoSuffix, md |-> FALSE]
FileSeg(base, sfx) == [name |-> base, sfx |-> sfx, md |-> TRUE]

\* the folder part of a path (candidate.slice(0, lastIndexOf("/")))
ParentOf(path) == SubSeq(path, 1, Len(path) - 1)

\* `${datePath}/${baseFilename}.md`
NotePath(datePath, baseFilename) == Append(datePath, FileSeg(baseFilename, NoSuffix))

NoPath == <<>>

\* addSuffixToMarkdownPath: the suffix goes between the base name and ".md"
addSuffixToMarkdownPath(path, suffix) ==
    [path EXCEPT ![Len(path)] = [@ EXCEPT !.sfx = suffix]]

\* -------------------------------------------------------------------- vault
\* The vault maps each existing path to its entry.  A file carries its
\* frontmatter (as the metadata cache reports it) and its body.
FmKeys == {"noteId", "source_app_id", "ignore_sync", "status", "type"}
EmptyFm == [k \in FmKeys |-> Undefined]
FolderEntry == [kind |-> "folder", fm |-> EmptyFm, body |-> ""]
FileEntry(fm, body) == [kind |-> "file", fm |-> fm, body |-> body]

\* app.vault.getAbstractFileByPath(path) !== null
Exists(v, path) == path \in DOMAIN v
\* getAbstractFileByPath(path) instanceof TFile
IsTFile(v, path) == path \in DOMAIN v /\ v[path].kind = "file"
\* getAbstractFileByPath(path) instanceof TFolder
IsTFolder(v, path) == path \in DOMAIN v /\ v[path].kind = "folder"

Put(f, k, x) == [y \in DOMAIN f \cup {k} |-> IF y = k THEN x ELSE f[y]]
Remove(f, k) == [y \in DOMAIN f \ {k} |-> f[y]]

Prefixes(path) == {SubSeq(path, 1, n) : n \in 1 .. Len(path)}

\* app.vault.createFolder(path): the folder and its missing ancestors
createFolder(v, path) ==
    [p \in DOMAIN v \cup Prefixes(path) |-> IF p \in DOMAIN v THEN v[p] ELSE FolderEntry]

\* ensureFolderExists (vault.ts).  fail names the host call that rejects:
\* "createFolder" rejects with a message the handler rethrows,
\* "createFolderErrorExists" with one matching /error\s+exists/i, swallowed.
ensureFolderExists(v, folderPath, fail) ==
    IF Exists(v, folderPath)
    THEN IF ~IsTFolder(v, folderPath)
         THEN [thrown |-> TRUE, vault |-> v]
         ELSE [thrown |-> FALSE, vault |-> v]
    ELSE IF fail = "createFolder" THEN [thrown |-> TRUE, vault |-> v]
    ELSE IF fail = "createFolderErrorExists" THEN [thrown |-> FALSE, vault |-> v]
    ELSE [thrown |-> FALSE, vault |-> createFolder(v, folderPath)]

\* ------------------------------------------------- collision resolution
ShortId(noteId) ==
    LET compactId == StripDashes(noteId)
    IN Take(IF compactId # <<>> THEN compactId ELSE noteId, ShortIdLen)

\* attempt k (1-based) appends " (shortId)" for k = 1 and " (shortId)-k" after
SuffixFor_anonymous(noteId, k) == [id |-> <<>>, n |-> k]

SuffixFor(noteId, k) == [id |-> ShortId(noteId), n |-> k]

resolveUniqueNotePath_ignoresCurrent(v, preferredPath, noteId, currentPath) ==
    IF ~Exists(v, preferredPath) THEN preferredPath
    ELSE LET free == {k \in 1 .. MaxSuffixAttempts :
                        ~Exists(v, addSuffixToMarkdownPath(
                                      preferredPath, SuffixFor(noteId, k)))}
         IN IF free = {} THEN preferredPath
            ELSE addSuffixToMarkdownPath(preferredPath,
                    SuffixFor(noteId, CHOOSE k \in free : \A j \in free : k <= j))

resolveUniqueNotePath(v, preferredPath, noteId, currentPath) ==
    IF currentPath # NoPath /\ currentPath = preferredPath THEN preferredPath
    ELSE IF ~Exists(v, preferredPath)
            \/ (currentPath # NoPath /\ IsTFile(v, preferredPath)
                /\ preferredPath = currentPath)
    THEN preferredPath
    ELSE LET free == {k \in 1 .. MaxSuffixAttempts :
                        LET candidate == addSuffixToMarkdownPath(
                                            preferredPath, SuffixFor(noteId, k))
                        IN ~Exists(v, candidate)
                           \/ (currentPath # NoPath /\ IsTFile(v, candidate)
                               /\ candidate = currentPath)}
         IN IF free = {} THEN preferredPath
            ELSE addSuffixToMarkdownPath(preferredPath,
                    SuffixFor(noteId, CHOOSE k \in free : \A j \in free : k <= j))

\* ------------------------------------------------------------ reconciler
\* stripQueryParamsFromImageUrls(content).content, on the bodies of the model
stripQueryParamsFromImageUrls(body) ==
    IF body = "![alt](img.png?token=s)" THEN "![alt](img.png)" ELSE body

\* (noteData.noteId ?? "").trim()
SourceIdOf(noteData) ==
    IF noteData.noteId.t = "str" THEN Trim(noteData.noteId.v) ELSE <<>>

\* settings.preserveKeys split on commas and newlines, trimmed, without the
\* empty key and the two identity keys
keysToPreserve(settings) ==
    settings.preserveKeys \ {"", "noteId", "source_app_id"}

\* the filename schemes of handleNoteProcessing.  The settings of the model
\* use the formats "noteId" and "title"; the last branch is the final else of
\* the code (a format it does not know); the formats that read createTime
\* are in baseFilenameFor.
baseFilenameOf(settings, noteData) ==
    LET sourceId == SourceIdOf(noteData)
        idName == DashesToUnderscores(sourceId)
        byFormat ==
            IF settings.filenameFormat = "noteId" THEN idName
            ELSE IF settings.filenameFormat = "title"
                 THEN IF Trim(noteData.title) # <<>>
                      THEN sanitizeFilename(noteData.title) ELSE idName
            ELSE idName
    IN IF byFormat # <<>> THEN byFormat
       ELSE IF idName # <<>> THEN idName ELSE Untitled

\* frontmatter.noteId ?? frontmatter.source_app_id
FrontmatterId(fm) ==
    IF fm["noteId"].t # "undef" THEN fm["noteId"] ELSE fm["source_app_id"]

\* lines 563-599: the file the note resolves to and the identity map after
\* the lookups; path is NoPath when nothing was found
resolveExistingFile_indexFirst(v, notePathById, localIndex, sourceId, desiredPath) ==
    LET hasIndexed == sourceId \in DOMAIN localIndex /\ localIndex[sourceId] # NoPath
        byIndex == IF hasIndexed /\ IsTFile(v, localIndex[sourceId])
                   THEN localIndex[sourceId] ELSE NoPath
        hasMapped == sourceId \in DOMAIN notePathById
                        /\ notePathById[sourceId] # NoPath
        byMap == IF byIndex = NoPath /\ hasMapped /\ IsTFile(v, notePathById[sourceId])
                 THEN notePathById[sourceId] ELSE NoPath
        found == IF byIndex # NoPath THEN byIndex ELSE byMap
    IN [path |-> found,
        map |-> IF found # NoPath THEN Put(notePathById, sourceId, found)
                ELSE notePathById]

resolveExistingFile(v, notePathById, localIndex, sourceId, desiredPath) ==
    LET hasMapped == sourceId \in DOMAIN notePathById
                        /\ notePathById[sourceId] # NoPath
        byMap == IF hasMapped /\ IsTFile(v, notePathById[sourceId])
                 THEN notePathById[sourceId] ELSE NoPath
        map1 == IF hasMapped /\ byMap = NoPath
                THEN Remove(notePathById, sourceId) ELSE notePathById
        hasIndexed == sourceId \in DOMAIN localIndex /\ localIndex[sourceId] # NoPath
        byIndex == IF byMap = NoPath /\ hasIndexed /\ IsTFile(v, localIndex[sourceId])
                   THEN localIndex[sourceId] ELSE NoPath
        found2 == IF byMap # NoPath THEN byMap ELSE byIndex
        byDesired ==
            IF found2 = NoPath /\ IsTFile(v, desiredPath)
               /\ LET fmId == FrontmatterId(v[desiredPath].fm)
                  IN fmId.t = "str" /\ Trim(fmId.v) = sourceId
            THEN desiredPath ELSE NoPath
        found == IF found2 # NoPath THEN found2 ELSE byDesired
    IN [path |-> found,
        map |-> IF found # NoPath THEN Put(map1, sourceId, found) ELSE map1]

\* app.fileManager.processFrontMatter(targetFile, fn) with fn assigning props
applyPreserved(fm, props) ==
    [k \in FmKeys |-> IF k \in DOMAIN props THEN props[k] ELSE fm[k]]

\* line 607: ignoreKey && existingFrontmatter[ignoreKey] === true
ignoreSkips_unlessDeleted(ignoreKey, fm, isDel) ==
    ignoreKey # "" /\ fm[ignoreKey] = BoolTrue /\ ~isDel

ignoreSkips(ignoreKey, fm, isDel) ==
    ignoreKey # "" /\ fm[ignoreKey] = BoolTrue

\* app.fileManager.trashFile(file): the file leaves the vault for the trash
trashFile_unlinks(v, tr, path) ==
    [vault |-> Remove(v, path), trash |-> tr]

trashFile(v, tr, path) ==
    [vault |-> Remove(v, path),
     trash |-> tr \cup {[path |-> path, entry |-> v[path]]}]

\* lines 632-634: the mapping is dropped once the file is in the trash
mapAfterDelete_kept(map, sourceId) == map

mapAfterDelete(map, sourceId) == Remove(map, sourceId)

\* line 662: finalPath of a note whose file was renamed
renamedFinalPath_before(candidate, existing) == existing

renamedFinalPath(candidate, existing) == candidate

\* line 679: finalPath of a created note
createdFinalPath_desired(uniquePath, desiredPath) == desiredPath

createdFinalPath(uniquePath, desiredPath) == uniquePath

Thrown(v, tr, map) ==
    [thrown |-> TRUE, status |-> "error", notePath |-> NoPath,
     vault |-> v, trash |-> tr, map |-> map]

Returned(status, path, v, tr, map) ==
    [thrown |-> FALSE, status |-> status, notePath |-> path,
     vault |-> v, trash |-> tr, map |-> map]

\* lines 640-705: write the content of a note that is not deleted
upsertNote(v, tr, map, settings, noteData, sourceId, desiredPath, existing, props, fail) ==
    LET content == FileEntry(noteData.content.fm,
                             stripQueryParamsFromImageUrls(noteData.content.body))
        reapply(vault, path) ==
            IF DOMAIN props # {} /\ fail # "processFrontMatter"
            THEN [vault EXCEPT ![path].fm = applyPreserved(@, props)]
            ELSE vault
    IN IF existing # NoPath
       THEN IF existing # desiredPath
            THEN LET candidate == resolveUniqueNotePath(v, desiredPath, sourceId, existing)
                 IN IF ~Exists(v, candidate)
                    THEN LET ensured == ensureFolderExists(v, ParentOf(candidate), fail)
                         IN IF ParentOf(candidate) # <<>> /\ ensured.thrown
                            THEN Thrown(v, tr, map)
                            ELSE IF fail = "renameFile"
                                    \/ ~IsTFolder(ensured.vault, ParentOf(candidate))
                            THEN Thrown(ensured.vault, tr, map)
                            ELSE LET moved == Put(Remove(ensured.vault, existing),
                                                  candidate, v[existing])
                                 IN IF fail = "modify"
                                    THEN Thrown(moved, tr, map)
                                    ELSE LET written == Put(moved, candidate, content)
                                             finalPath == renamedFinalPath(candidate,
                                                                           existing)
                                         IN Returned("processed", finalPath,
                                                reapply(written, candidate), tr,
                                                Put(map, sourceId, finalPath))
                    ELSE IF fail = "modify" THEN Thrown(v, tr, map)
                         ELSE Returned("processed", existing,
                                reapply(Put(v, existing, content), existing), tr,
                                Put(map, sourceId, existing))
            ELSE IF fail = "modify" THEN Thrown(v, tr, map)
                 ELSE Returned("processed", existing,
                        reapply(Put(v, existing, content), existing), tr,
                        Put(map, sourceId, existing))
       ELSE LET uniquePath == resolveUniqueNotePath(v, desiredPath, sourceId, NoPath)
                ensured == ensureFolderExists(v, ParentOf(uniquePath), fail)
            IN IF ParentOf(uniquePath) # <<>> /\ ensured.thrown
               THEN Thrown(v, tr, map)
               ELSE IF fail = "create" \/ Exists(ensured.vault, uniquePath)
                       \/ ~IsTFolder(ensured.vault, ParentOf(uniquePath))
               THEN Thrown(ensured.vault, tr, map)
               ELSE LET finalPath == createdFinalPath(uniquePath, desiredPath)
                    IN Returned("processed", finalPath,
                        reapply(Put(ensured.vault, uniquePath, content), uniquePath),
                        tr, Put(map, sourceId, finalPath))

\* handleNoteProcessing.  fail names the host call that rejects in this
\* invocation ("none" when every call succeeds).
\* lines 636-637: a deleted note with no file
deleteWithoutFile_deleted(v, tr, map, sourceId) ==
    Returned("deleted", NoPath, v, tr, Remove(map, sourceId))

deleteWithoutFile(v, tr, map, sourceId) ==
    Returned("skipped", NoPath, v, tr, Remove(map, sourceId))

handleNoteProcessing(v, tr, notePathById, localIndex, settings, noteData, datePath, fail) ==
    LET sourceId == SourceIdOf(noteData)
    IN IF sourceId = <<>> THEN Thrown(v, tr, notePathById)
       ELSE
       LET ignoreKey == settings.ignoreSyncKey
           desiredPath == NotePath(datePath, baseFilenameOf(settings, noteData))
           res == resolveExistingFile(v, notePathById, localIndex, sourceId, desiredPath)
           existing == res.path
           map == res.map
           existingFm == IF existing # NoPath THEN v[existing].fm ELSE EmptyFm
           kept == {k \in keysToPreserve(settings) \cap FmKeys : existingFm[k].t # "undef"}
           props == [k \in kept |-> existingFm[k]]
       IN IF existing # NoPath /\ ignoreSkips(ignoreKey, existingFm, noteData.isDel)
          THEN Returned("skipped", NoPath, v, tr, map)
          ELSE IF noteData.isDel
          THEN IF existing # NoPath
               THEN IF fail = "trashFile" THEN Thrown(v, tr, map)
                    ELSE LET t == trashFile(v, tr, existing)
                         IN Returned("deleted", existing, t.vault, t.trash,
                                     mapAfterDelete(map, sourceId))
               ELSE deleteWithoutFile(v, tr, map, sourceId)
          ELSE upsertNote(v, tr, map, settings, noteData, sourceId, desiredPath,
                          existing, props, fail)

\* ------------------------------------------------------- folder routing
Crawl == <<"c", "r", "a", "w", "l">>
NoteType == <<"n", "o", "t", "e">>
DefaultNoteFolder == <<"n", "o", "t", "e">>
DefaultMaterialFolder == <<"m", "a", "t", "e", "r", "i", "a", "l">>

RECURSIVE StripLeadingSlashes(_)
StripLeadingSlashes(s) ==
    IF s # <<>> /\ Head(s) = "/" THEN StripLeadingSlashes(Tail(s)) ELSE s

RECURSIVE StripTrailingSlashes(_)
StripTrailingSlashes(s) ==
    IF s # <<>> /\ s[Len(s)] = "/"
    THEN StripTrailingSlashes(SubSeq(s, 1, Len(s) - 1)) ELSE s

\* s.replace(/^\/+|\/+$/g, "")
StripSlashes(s) == StripTrailingSlashes(StripLeadingSlashes(s))

\* s.replace(/\\/g, "/")
BackslashesToSlashes(s) == [i \in 1 .. Len(s) |-> IF s[i] = "\\" THEN "/" ELSE s[i]]

RECURSIVE CollapseSlashRuns(_)
CollapseSlashRuns(s) ==
    IF Len(s) < 2 THEN s
    ELSE IF s[1] = "/" /\ s[2] = "/" THEN CollapseSlashRuns(Tail(s))
    ELSE <<s[1]>> \o CollapseSlashRuns(Tail(s))

\* normalizePath of the host: separators become single slashes, those at
\* the ends are dropped, and the empty path is "/"
normalizePath(s) ==
    LET p == StripSlashes(CollapseSlashRuns(BackslashesToSlashes(s)))
    IN IF p = <<>> THEN <<"/">> ELSE p

\* path.split("/").filter(segment => segment.length > 0)
RECURSIVE PathSegments(_, _)
PathSegments(s, cur) ==
    IF s = <<>> THEN (IF cur = <<>> THEN <<>> ELSE <<cur>>)
    ELSE IF Head(s) = "/"
    THEN (IF cur = <<>> THEN <<>> ELSE <<cur>>) \o PathSegments(Tail(s), <<>>)
    ELSE PathSegments(Tail(s), Append(cur, Head(s)))

\* sanitizeRelativeFolderSubpath: [ok, v]; ok is FALSE where the code
\* returns null
NoSubpath == [ok |-> FALSE, v |-> <<>>]
\* no path that starts at the root, no empty path, no traversal segment
SubpathChecked(normalized, segments) ==
    IF Head(normalized) = "/" THEN NoSubpath
    ELSE IF segments = <<>> THEN NoSubpath
    ELSE IF \E i \in 1 .. Len(segments) : segments[i] \in {<<".">>, <<".", ".">>}
    THEN NoSubpath
    ELSE [ok |-> TRUE, v |-> normalized]

SubpathNormalized(normalized) ==
    SubpathChecked(normalized, PathSegments(normalized, <<>>))

\* the value trimmed, its separators made slashes, those at the ends
\* dropped, and the rest normalised
SubpathTrimmed(trimmed) ==
    IF trimmed = <<>> THEN NoSubpath
    ELSE SubpathNormalized(normalizePath(StripSlashes(BackslashesToSlashes(trimmed))))

sanitizeRelativeFolderSubpath(value) ==
    IF value.t # "str" THEN NoSubpath ELSE SubpathTrimmed(Trim(value.v))

ToLowerChar(ch) == IF ch = "C" THEN "c" ELSE IF ch = "N" THEN "n" ELSE ch
\* value.trim().toLowerCase(), "" for a value that is not a string
normalizeTypeValue(value) ==
    IF value.t = "str"
    THEN LET trimmed == Trim(value.v)
         IN [i \in 1 .. Len(trimmed) |-> ToLowerChar(trimmed[i])]
    ELSE <<>>

categorizeDinoxType_crawlAsNote(value) ==
    LET normalizedType == normalizeTypeValue(value)
    IN IF normalizedType = <<>> \/ normalizedType = NoteType \/ normalizedType = Crawl
       THEN [category |-> "note", isKnown |-> TRUE]
       ELSE [category |-> "note", isKnown |-> FALSE]

categorizeDinoxType(value) ==
    LET normalizedType == normalizeTypeValue(value)
    IN IF normalizedType = <<>> \/ normalizedType = NoteType
       THEN [category |-> "note", isKnown |-> TRUE]
       ELSE IF normalizedType = Crawl
       THEN [category |-> "material", isKnown |-> TRUE]
       ELSE [category |-> "note", isKnown |-> FALSE]

\* noteData.type, else the type scalar of the rendered frontmatter
getNoteTypeForRouting(noteData) ==
    IF noteData.type.t = "str" THEN noteData.type ELSE noteData.content.fm["type"]

\* sanitizeRelativeFolderSubpath(value) ?? fallback
SubpathOr(sanitized, fallback) == IF sanitized.ok THEN sanitized.v ELSE fallback

\* two names that are the same give way to the defaults
NamesApart(note, material) ==
    IF note = material
    THEN [note |-> DefaultNoteFolder, material |-> DefaultMaterialFolder]
    ELSE [note |-> note, material |-> material]

\* the two folder names as sanitizeRelativeFolderSubpath leaves them, the
\* defaults where it returns null or where the two names are the same
getSanitizedTypeFolderNames(typeFolders) ==
    NamesApart(SubpathOr(sanitizeRelativeFolderSubpath(StrVal(typeFolders.note)),
                         DefaultNoteFolder),
               SubpathOr(sanitizeRelativeFolderSubpath(StrVal(typeFolders.material)),
                         DefaultMaterialFolder))

\* the folders a list of path segments names
FoldersOfSegments(segments) == [i \in 1 .. Len(segments) |-> FolderSeg(segments[i])]
\* the folders a relative path names
FoldersOf(subpath) == FoldersOfSegments(PathSegments(subpath, <<>>))

\* names.material or names.note
NameFor(names, category) == IF category = "material" THEN names.material ELSE names.note

\* normalizePath(`${baseDir}/${subdir}`) with type folders enabled
resolveCategoryBaseDir(baseDir, typeFolders, category) ==
    IF ~typeFolders.enabled THEN baseDir
    ELSE baseDir \o FoldersOf(NameFor(getSanitizedTypeFolderNames(typeFolders), category))

Digits == {"0", "1", "2", "3", "4", "5", "6", "7", "8", "9"}
\* dayData.date.replace(/[^0-9-]/g, "")
SafeDate(date) == SelectSeq(date, LAMBDA ch : ch \in Digits \cup {"-"})

DefaultDir == <<"D">>
\* normalizePath(dir?.trim() || DEFAULT_SETTINGS.dir)
BaseDirOf(settings) ==
    <<FolderSeg(IF Trim(settings.dir) = <<>> THEN DefaultDir ELSE Trim(settings.dir))>>

\* normalizePath(`${noteBaseDir}/${safeDate}`) in the nested layout
DatePathIn(noteBaseDir, safeDate, wantsNestedLayout) ==
    IF wantsNestedLayout THEN Append(noteBaseDir, FolderSeg(safeDate)) ELSE noteBaseDir

\* the calls of ensureFolderOnce, in order, and the folder of the note
FoldersPrepared(categoryBaseDir, datePath, wantsNestedLayout) ==
    [prepare |-> <<categoryBaseDir>> \o (IF wantsNestedLayout THEN <<datePath>> ELSE <<>>),
     datePath |-> datePath]

\* noteBaseDir is categoryBaseDir
FoldersIn(categoryBaseDir, safeDate, wantsNestedLayout) ==
    FoldersPrepared(categoryBaseDir,
                    DatePathIn(categoryBaseDir, safeDate, wantsNestedLayout),
                    wantsNestedLayout)

\* the folders processApiResponse prepares for one note, in order, and the
\* folder the note is reconciled in (zettel-box folders are switched off)
foldersForNote(settings, date, noteData) ==
    FoldersIn(resolveCategoryBaseDir(
                  BaseDirOf(settings), settings.typeFolders,
                  categorizeDinoxType(getNoteTypeForRouting(noteData)).category),
              SafeDate(date),
              settings.fileLayout = "nested" /\ SafeDate(date) # <<>>)

RECURSIVE ensureFoldersOnce(_, _, _, _)
\* ensureFolderOnce over the folders of one note: a folder already in
\* ensuredFolders is not looked at again
ensureFoldersOnce(v, ensured, folders, fail) ==
    IF folders = <<>> THEN [thrown |-> FALSE, vault |-> v, ensured |-> ensured]
    ELSE IF Head(folders) \in ensured
         THEN ensureFoldersOnce(v, ensured, Tail(folders), fail)
         ELSE LET r == ensureFolderExists(v, Head(folders), fail)
              IN IF r.thrown
                 THEN [thrown |-> TRUE, vault |-> r.vault,
                       ensured |-> ensured \cup {Head(folders)}]
                 ELSE ensureFoldersOnce(r.vault, ensured \cup {Head(folders)},
                                        Tail(folders), fail)

\* --------------------------------------------------------- identity index
\* files below baseDir that carry a note id in their frontmatter
ClaimedIds(v, baseDir) ==
    {Trim(FrontmatterId(v[p].fm).v) :
        p \in {q \in DOMAIN v : /\ Len(q) > Len(baseDir)
                                /\ SubSeq(q, 1, Len(baseDir)) = baseDir
                                /\ v[q].kind = "file" /\ q[Len(q)].md
                                /\ FrontmatterId(v[q].fm).t = "str"
                                /\ Trim(FrontmatterId(v[q].fm).v) # <<>>}}

ClaimingPaths(v, baseDir, id) ==
    {q \in DOMAIN v : /\ Len(q) > Len(baseDir)
                      /\ SubSeq(q, 1, Len(baseDir)) = baseDir
                      /\ v[q].kind = "file" /\ q[Len(q)].md
                      /\ FrontmatterId(v[q].fm).t = "str"
                      /\ Trim(FrontmatterId(v[q].fm).v) = id}

\* buildLocalNoteIdIndex: the first file met for an id wins; the order in
\* which folders list their children is the host's, so any claimant may win
buildLocalNoteIdIndex(v, baseDir) ==
    IF ~IsTFolder(v, baseDir) THEN {<<>>}
    ELSE {f \in [ClaimedIds(v, baseDir) -> DOMAIN v] :
            \A id \in ClaimedIds(v, baseDir) : f[id] \in ClaimingPaths(v, baseDir, id)}

\* ------------------------------------------------------------- watermark
\* A stored lastSyncTime: a date-time in whole seconds, an unparseable
\* string, or nothing.  The sentinel 1900-01-01 00:00:00 lies before every
\* time of the clock.
TimeVal(sec) == [kind |-> "time", sec |-> sec]
Sentinel == TimeVal(-1)
Garbage == [kind |-> "garbage", sec |-> 0]
NaNTime == [kind |-> "nan", sec |-> 0]
NoTime == [kind |-> "empty", sec |-> 0]

\* formatDate of an instant of the clock: the sub-second part is dropped
formatDate(tick) == TimeVal(tick \div TicksPerSecond)

\* formatDate(new Date(stored)): an unparseable string gives an Invalid Date,
\* which formats as "NaN-NaN-NaN NaN:NaN:NaN"
formatStored(stored) == IF stored.kind = "time" THEN stored ELSE NaNTime

\* syncNotes step 1: the watermark sent to the API
lastSyncTimeFor_sentinel(pData) == Sentinel

lastSyncTimeFor(pData) ==
    IF pData.lastSyncTime.kind # "empty"
    THEN formatStored(pData.lastSyncTime) ELSE Sentinel

\* syncNotes step 5: the watermark a successful pass stores
newLastSyncTime_atEnd(syncStart, syncEnd) == formatDate(syncEnd)

newLastSyncTime(syncStart, syncEnd) == formatDate(syncStart)

\* ------------------------------------------------------------------ fetch
\* fetchNotesFromApi on a response [status, json]; json is
\* [isRecord, code, data] with data "undefined", "notArray" or a bucket list
SuccessCode == <<"0", "0", "0", "0", "0", "0">>

fetchNotesFromApi_anyCode(resp) ==
    IF resp.status # 200 THEN [thrown |-> TRUE, dayNotes |-> <<>>]
    ELSE IF ~resp.json.isRecord \/ resp.json.code.t # "str"
    THEN [thrown |-> TRUE, dayNotes |-> <<>>]
    ELSE IF resp.json.data.kind = "undefined" THEN [thrown |-> FALSE, dayNotes |-> <<>>]
    ELSE IF resp.json.data.kind # "array" THEN [thrown |-> TRUE, dayNotes |-> <<>>]
    ELSE [thrown |-> FALSE,
          dayNotes |-> SelectSeq(resp.json.data.items, LAMBDA d : d.date # <<>>)]

fetchNotesFromApi(resp) ==
    IF resp.status # 200 THEN [thrown |-> TRUE, dayNotes |-> <<>>]
    ELSE IF ~resp.json.isRecord \/ resp.json.code.t # "str"
    THEN [thrown |-> TRUE, dayNotes |-> <<>>]
    ELSE IF resp.json.code.v # SuccessCode THEN [thrown |-> TRUE, dayNotes |-> <<>>]
    ELSE IF resp.json.data.kind = "undefined" THEN [thrown |-> FALSE, dayNotes |-> <<>>]
    ELSE IF resp.json.data.kind # "array" THEN [thrown |-> TRUE, dayNotes |-> <<>>]
    ELSE [thrown |-> FALSE,
          dayNotes |-> SelectSeq(resp.json.data.items, LAMBDA d : d.date # <<>>)]

Reverse(s) == [i \in 1 .. Len(s) |-> s[Len(s) + 1 - i]]

RECURSIVE Flatten(_)
Flatten(days) ==
    IF days = <<>> THEN <<>>
    ELSE [i \in 1 .. Len(Head(days).notes) |->
            [date |-> Head(days).date, noteData |-> Head(days).notes[i]]]
         \o Flatten(Tail(days))

\* the order in which processApiResponse handles the notes: dayNotes.reverse(),
\* and notes.reverse() inside each day
processingOrder_asReceived(dayNotes) == Flatten(dayNotes)

processingOrder(dayNotes) ==
    Flatten([i \in 1 .. Len(dayNotes) |->
                [date |-> Reverse(dayNotes)[i].date,
                 notes |-> Reverse(Reverse(dayNotes)[i].notes)]])

\* the catch block of the note loop reads noteData.noteId.substring(0, 8);
\* that read throws when noteId is not a string
noteFailureNoticeThrows(noteData) == noteData.noteId.t # "str"

\* ------------------------------------------------------------ the inputs
IdA == <<"a", "-", "1">>
IdB == <<"a", "-", "2">>
TitleT == <<"T">>
Day1 == <<"1">>

RenderedFm(id, status) ==
    [EmptyFm EXCEPT !["noteId"] = StrVal(id), !["status"] = status]

RemoteNote(noteId, renderedId, isDel, status) ==
    [noteId |-> noteId, title |-> TitleT, isDel |-> isDel, type |-> Undefined,
     content |-> [fm |-> RenderedFm(renderedId, status), body |-> "remote"]]

NoteA == RemoteNote(StrVal(IdA), IdA, FALSE, StrVal(<<"r">>))
NoteADel == RemoteNote(StrVal(IdA), IdA, TRUE, Undefined)
NoteB == RemoteNote(StrVal(IdB), IdB, FALSE, Undefined)
NoteNoId == RemoteNote(Undefined, <<>>, FALSE, Undefined)
NoteBlankId == RemoteNote(StrVal(<<" ">>), <<>>, FALSE, Undefined)

Notes == {NoteA, NoteADel, NoteB, NoteNoId, NoteBlankId}

Bucket(notes) == [date |-> Day1, notes |-> notes]

\* the bucket lists the notes endpoint may return
DayNoteLists ==
    {<<>>,
     <<Bucket(<<NoteA>>)>>,
     <<Bucket(<<NoteADel>>)>>,
     <<Bucket(<<NoteA, NoteB>>)>>,
     <<Bucket(<<NoteA>>), Bucket(<<NoteNoId>>)>>,
     <<Bucket(<<NoteB>>), Bucket(<<NoteBlankId>>)>>}

\* what the notes endpoint may answer
Responses ==
    {[status |-> 200,
      json |-> [isRecord |-> TRUE, code |-> StrVal(SuccessCode),
                data |-> [kind |-> "array", items |-> days]]] : days \in DayNoteLists}
    \cup {[status |-> 500,
           json |-> [isRecord |-> FALSE, code |-> Undefined,
                     data |-> [kind |-> "undefined", items |-> <<>>]]],
          [status |-> 200,
           json |-> [isRecord |-> TRUE, code |-> StrVal(<<"5">>),
                     data |-> [kind |-> "undefined", items |-> <<>>]]],
          [status |-> 200,
           json |-> [isRecord |-> TRUE, code |-> StrVal(SuccessCode),
                     data |-> [kind |-> "notArray", items |-> <<>>]]],
          [status |-> 200,
           json |-> [isRecord |-> TRUE, code |-> StrVal(SuccessCode),
                     data |-> [kind |-> "undefined", items |-> <<>>]]],
          [status |-> 200,
           json |-> [isRecord |-> FALSE, code |-> Undefined,
                     data |-> [kind |-> "undefined", items |-> <<>>]]],
          [status |-> 200,
           json |-> [isRecord |-> TRUE, code |-> NumVal(SuccessCode),
                     data |-> [kind |-> "array", items |-> <<Bucket(<<NoteA>>)>>]]],
          [status |-> 201,
           json |-> [isRecord |-> TRUE, code |-> StrVal(SuccessCode),
                     data |-> [kind |-> "array", items |-> <<Bucket(<<NoteA>>)>>]]]}

\* the host calls that may reject during one step
FailPoints == {"none", "createFolder", "createFolderErrorExists", "renameFile",
               "modify", "create", "trashFile", "processFrontMatter"}

SettingsOf(token, filenameFormat, fileLayout) ==
    [token |-> token, isAutoSync |-> TRUE, dir |-> DefaultDir,
     typeFolders |-> [enabled |-> FALSE, note |-> DefaultNoteFolder,
                      material |-> DefaultMaterialFolder],
     filenameFormat |-> filenameFormat, fileLayout |-> fileLayout,
     ignoreSyncKey |-> "ignore_sync", preserveKeys |-> {"status", "noteId"}]

Root == <<>>
BaseDir == <<FolderSeg(DefaultDir)>>
PathOfA == NotePath(BaseDir, DashesToUnderscores(IdA))
PathOfT == NotePath(BaseDir, TitleT)

LocalFm(id, status, ignore) ==
    [EmptyFm EXCEPT !["noteId"] = StrVal(id), !["status"] = status,
                    !["ignore_sync"] = ignore]

VaultFresh == [p \in {Root} |-> FolderEntry]
VaultBase == [p \in {Root, BaseDir} |-> FolderEntry]
VaultSynced == Put(VaultBase, PathOfA,
                   FileEntry(LocalFm(IdA, StrVal(<<"l">>), Undefined), "local"))
VaultIgnored == Put(VaultBase, PathOfA,
                    FileEntry(LocalFm(IdA, StrVal(<<"l">>), BoolTrue), "local"))
VaultTitled == Put(VaultBase, PathOfT,
                   FileEntry(LocalFm(IdB, Undefined, StrVal(<<"t", "r", "u", "e">>)), "local"))
VaultBlocked == Put(VaultFresh, BaseDir, FileEntry(EmptyFm, "local"))

IdFlat == SettingsOf(<<"k">>, "noteId", "flat")
IdNested == SettingsOf(<<"k">>, "noteId", "nested")
TitleFlat == SettingsOf(<<"k">>, "title", "flat")
NoToken == SettingsOf(<<>>, "noteId", "flat")

EmptyMap == <<>>
\* the identity maps the store may hold: none, or an entry for note A (stale
\* when the vault has no such file)
MapOfA == Put(EmptyMap, IdA, PathOfA)

Stored(time, map) == [lastSyncTime |-> time, notePathById |-> map]
\* the settings in memory are those loadSettings read from the store
Start(st, v, stored) ==
    [settings |-> st, vault |-> v,
     persisted |-> [settings |-> st, lastSyncTime |-> stored.lastSyncTime,
                    notePathById |-> stored.notePathById]]

\* the installations a run may start from
Installations ==
    {Start(IdFlat, VaultFresh, Stored(NoTime, EmptyMap)),
     Start(IdFlat, VaultFresh, Stored(TimeVal(0), MapOfA)),
     Start(IdFlat, VaultSynced, Stored(TimeVal(0), MapOfA)),
     Start(IdFlat, VaultSynced, Stored(NoTime, EmptyMap)),
     Start(IdFlat, VaultIgnored, Stored(TimeVal(0), MapOfA)),
     Start(IdFlat, VaultBlocked, Stored(NoTime, EmptyMap)),
     Start(IdNested, VaultSynced, Stored(TimeVal(0), MapOfA)),
     Start(TitleFlat, VaultTitled, Stored(NoTime, EmptyMap)),
     Start(TitleFlat, VaultBase, Stored(NoTime, EmptyMap)),
     Start(IdFlat, VaultSynced, Stored(Garbage, MapOfA)),
     Start(NoToken, VaultFresh, Stored(NoTime, EmptyMap))}

\* ------------------------------------------------- persisted data (schema 2)
\* A JSON scalar is a tagged value as above; null and an array where a scalar
\* is expected are further tags.  A JSON object with known keys is a record
\* with a tag t and one field per key, Undefined for a key that is missing; a
\* value of another kind in the place of an object carries its tag and no key.
NullVal == [t |-> "null", v |-> <<>>]
ArrayVal == [t |-> "arr", v |-> <<>>]

PERSISTED_SCHEMA_VERSION == 2

\* typeof value === "boolean" ? value : fallback
BoolOr(value, fallback) == IF value.t = "bool" THEN value = BoolTrue ELSE fallback
\* typeof value === "string" ? value : fallback
StringOr(value, fallback) == IF value.t = "str" THEN value.v ELSE fallback

\* /\s/.test(s)
HasWhitespace(s) == \E i \in 1 .. Len(s) : s[i] = " "

\* ---- the defaults of constants.ts
DEFAULT_LAST_SYNC_TIME == <<"1900-01-01 00:00:00">>
DEFAULT_TYPE_FOLDERS_SETTINGS ==
    [enabled |-> TRUE, note |-> DefaultNoteFolder, material |-> DefaultMaterialFolder]
DEFAULT_ZETTEL_BOX_FOLDERS_SETTINGS == [enabled |-> FALSE]
DEFAULT_DAILY_NOTES_SETTINGS ==
    [enabled |-> FALSE, heading |-> <<"## Dinox Notes">>, insertTo |-> <<"bottom">>,
     createIfMissing |-> TRUE, linkStyle |-> <<"wikilink">>, includePreview |-> FALSE]
createEmptyHotkey == [modifiers |-> <<>>, key |-> <<>>]
createDefaultHotkeys ==
    [syncAll |-> createEmptyHotkey, syncCurrentNote |-> createEmptyHotkey,
     createNote |-> createEmptyHotkey]
DEFAULT_SETTINGS ==
    [token |-> <<>>, isAutoSync |-> FALSE, dir |-> <<"Dinox Sync">>,
     typeFolders |-> DEFAULT_TYPE_FOLDERS_SETTINGS,
     zettelBoxFolders |-> DEFAULT_ZETTEL_BOX_FOLDERS_SETTINGS,
     template |-> <<"DEFAULT_TEMPLATE_TEXT">>,
     filenameFormat |-> <<"noteId">>,
     filenameTemplate |-> <<"{{title}} ({{createDate}})">>,
     fileLayout |-> <<"nested">>, ignoreSyncKey |-> <<"ignore_sync">>,
     preserveKeys |-> <<>>, commandHotkeys |-> createDefaultHotkeys,
     dailyNotes |-> DEFAULT_DAILY_NOTES_SETTINGS]

\* a boolean and a string of the settings object as JSON scalars
JsonBool(b) == IF b THEN BoolTrue ELSE BoolFalse

\* ---- JSON objects with the keys the normalisers read
TypeFoldersJson(t, enabled, note, material) ==
    [t |-> t, enabled |-> enabled, note |-> note, material |-> material]
ZettelBoxJson(t, enabled) == [t |-> t, enabled |-> enabled]
DailyNotesJson(t, enabled, heading, insertTo, createIfMissing, linkStyle, includePreview) ==
    [t |-> t, enabled |-> enabled, heading |-> heading, insertTo |-> insertTo,
     createIfMissing |-> createIfMissing, linkStyle |-> linkStyle,
     includePreview |-> includePreview]
\* a hotkey: key is a scalar; modifiers is [t, items], items a list of scalars
HotkeyJson(t, key, modifiers) == [t |-> t, key |-> key, modifiers |-> modifiers]
NoModifiers == [t |-> "undef", items |-> <<>>]
NoHotkey == HotkeyJson("undef", Undefined, NoModifiers)
HotkeysJson(t, syncAll, syncCurrentNote, createNote) ==
    [t |-> t, syncAll |-> syncAll, syncCurrentNote |-> syncCurrentNote,
     createNote |-> createNote]

NoTypeFolders == TypeFoldersJson("undef", Undefined, Undefined, Undefined)
NoZettelBox == ZettelBoxJson("undef", Undefined)
NoDailyNotes ==
    DailyNotesJson("undef", Undefined, Undefined, Undefined, Undefined, Undefined,
                   Undefined)
NoHotkeys == HotkeysJson("undef", NoHotkey, NoHotkey, NoHotkey)

\* value ?? fallback
Coalesce(value, fallback) == IF value.t \in {"undef", "null"} THEN fallback ELSE value

\* isJsonRecord(value) ? value : {}
RecordOr(value, empty) == IF value.t = "obj" THEN value ELSE empty

normalizeTypeFoldersSettings(value) ==
    LET record == RecordOr(value, NoTypeFolders)
        enabled == BoolOr(record.enabled, DEFAULT_TYPE_FOLDERS_SETTINGS.enabled)
        n == sanitizeRelativeFolderSubpath(record.note)
        m == sanitizeRelativeFolderSubpath(record.material)
        note == IF n.ok THEN n.v ELSE DEFAULT_TYPE_FOLDERS_SETTINGS.note
        material == IF m.ok THEN m.v ELSE DEFAULT_TYPE_FOLDERS_SETTINGS.material
    IN IF note = material
       THEN [DEFAULT_TYPE_FOLDERS_SETTINGS EXCEPT !.enabled = enabled]
       ELSE [enabled |-> enabled, note |-> note, material |-> material]

normalizeZettelBoxFoldersSettings(value) ==
    LET record == RecordOr(value, NoZettelBox)
    IN [enabled |-> BoolOr(record.enabled, DEFAULT_ZETTEL_BOX_FOLDERS_SETTINGS.enabled)]

normalizeDailyNotesSettings(value) ==
    LET record == RecordOr(value, NoDailyNotes)
    IN [enabled |-> BoolOr(record.enabled, DEFAULT_DAILY_NOTES_SETTINGS.enabled),
        heading |-> StringOr(record.heading, DEFAULT_DAILY_NOTES_SETTINGS.heading),
        insertTo |-> IF record.insertTo \in {StrVal(<<"top">>), StrVal(<<"bottom">>)}
                     THEN record.insertTo.v
                     ELSE DEFAULT_DAILY_NOTES_SETTINGS.insertTo,
        createIfMissing |-> BoolOr(record.createIfMissing,
                                   DEFAULT_DAILY_NOTES_SETTINGS.createIfMissing),
        linkStyle |-> IF record.linkStyle \in {StrVal(<<"wikilink">>), StrVal(<<"embed">>)}
                      THEN record.linkStyle.v
                      ELSE DEFAULT_DAILY_NOTES_SETTINGS.linkStyle,
        includePreview |-> BoolOr(record.includePreview,
                                  DEFAULT_DAILY_NOTES_SETTINGS.includePreview)]

\* ---- hotkeys.ts
VALID_MODIFIERS == {"Mod", "Ctrl", "Meta", "Shift", "Alt"}
MODIFIER_ORDER == <<"Mod", "Ctrl", "Meta", "Shift", "Alt">>
KeyEsc == <<"E", "s", "c">>
KeyEscape == <<"E", "s", "c", "a", "p", "e">>
KeySpace == <<"S", "p", "a", "c", "e">>
ToUpperChar(ch) == IF ch = "k" THEN "K" ELSE ch

normalizeKeyValue(key) ==
    IF key = <<>> THEN <<>>
    ELSE IF key = KeyEsc THEN KeyEscape
    ELSE IF key = KeySpace THEN <<" ">>
    ELSE IF Len(key) = 1 THEN <<ToUpperChar(key[1])>>
    ELSE key

\* sanitizeHotkeySetting: a value that is no object has neither key nor
\* modifiers; the valid modifiers are kept once each, in MODIFIER_ORDER
sanitizeHotkeySetting(setting) ==
    IF setting.t # "obj" THEN createEmptyHotkey
    ELSE LET rawModifiers == IF setting.modifiers.t = "arr"
                             THEN setting.modifiers.items ELSE <<>>
             deduped == {m \in VALID_MODIFIERS :
                            \E i \in 1 .. Len(rawModifiers) :
                               rawModifiers[i] = StrVal(<<m>>)}
         IN [key |-> IF setting.key.t = "str"
                     THEN normalizeKeyValue(setting.key.v) ELSE <<>>,
             modifiers |-> SelectSeq(MODIFIER_ORDER, LAMBDA m : m \in deduped)]

\* cloneHotkeyMap(isJsonRecord(commandHotkeys) ? commandHotkeys : undefined)
cloneHotkeyMap(value) ==
    LET map == RecordOr(value, NoHotkeys)
    IN [syncAll |-> sanitizeHotkeySetting(map.syncAll),
        syncCurrentNote |-> sanitizeHotkeySetting(map.syncCurrentNote),
        createNote |-> sanitizeHotkeySetting(map.createNote)]

\* ---- the settings object as JSON
SettingsKeysAbsent ==
    [token |-> Undefined, isAutoSync |-> Undefined, dir |-> Undefined,
     typeFolders |-> NoTypeFolders, zettelBoxFolders |-> NoZettelBox,
     template |-> Undefined, filenameFormat |-> Undefined,
     filenameTemplate |-> Undefined, fileLayout |-> Undefined,
     ignoreSyncKey |-> Undefined, preserveKeys |-> Undefined,
     commandHotkeys |-> NoHotkeys, dailyNotes |-> NoDailyNotes]

SettingsJson(t, keys) == [k \in DOMAIN keys \cup {"t"} |-> IF k = "t" THEN t ELSE keys[k]]
NoSettingsJson == SettingsJson("undef", SettingsKeysAbsent)

FilenameFormats == {<<"noteId">>, <<"title">>, <<"time">>, <<"titleDate">>, <<"template">>}
FileLayouts == {<<"flat">>, <<"nested">>}

TypeFoldersAsJson(tf) ==
    TypeFoldersJson("obj", JsonBool(tf.enabled), StrVal(tf.note), StrVal(tf.material))
ZettelBoxAsJson(z) == ZettelBoxJson("obj", JsonBool(z.enabled))
DailyNotesAsJson(d) ==
    DailyNotesJson("obj", JsonBool(d.enabled), StrVal(d.heading), StrVal(d.insertTo),
                   JsonBool(d.createIfMissing), StrVal(d.linkStyle),
                   JsonBool(d.includePreview))

normalizeSettings(value, defaults) ==
    LET record == RecordOr(value, NoSettingsJson)
        dir == IF record.dir.t = "str" THEN Trim(StripSlashes(record.dir.v))
               ELSE defaults.dir
    IN [token |-> IF record.token.t = "str" THEN Trim(record.token.v)
                  ELSE defaults.token,
        isAutoSync |-> BoolOr(record.isAutoSync, defaults.isAutoSync),
        dir |-> IF dir = <<>> THEN defaults.dir ELSE dir,
        typeFolders |-> normalizeTypeFoldersSettings(
                            Coalesce(record.typeFolders,
                                     TypeFoldersAsJson(defaults.typeFolders))),
        zettelBoxFolders |-> normalizeZettelBoxFoldersSettings(
                                 Coalesce(record.zettelBoxFolders,
                                          ZettelBoxAsJson(defaults.zettelBoxFolders))),
        template |-> StringOr(record.template, defaults.template),
        filenameFormat |-> IF record.filenameFormat.t = "str"
                              /\ record.filenameFormat.v \in FilenameFormats
                           THEN record.filenameFormat.v ELSE defaults.filenameFormat,
        filenameTemplate |-> StringOr(record.filenameTemplate, defaults.filenameTemplate),
        fileLayout |-> IF record.fileLayout.t = "str"
                          /\ record.fileLayout.v \in FileLayouts
                       THEN record.fileLayout.v ELSE defaults.fileLayout,
        ignoreSyncKey |-> IF /\ record.ignoreSyncKey.t = "str"
                             /\ Trim(record.ignoreSyncKey.v) # <<>>
                             /\ ~HasWhitespace(record.ignoreSyncKey.v)
                          THEN Trim(record.ignoreSyncKey.v)
                          ELSE defaults.ignoreSyncKey,
        preserveKeys |-> StringOr(record.preserveKeys, defaults.preserveKeys),
        commandHotkeys |-> cloneHotkeyMap(record.commandHotkeys),
        dailyNotes |-> normalizeDailyNotesSettings(
                           Coalesce(record.dailyNotes,
                                    DailyNotesAsJson(defaults.dailyNotes)))]

\* ---- the state object as JSON
\* a JSON value where an identity map is expected: [t, entries]; entries
\* lists the own keys of an object (or the indices of an array) with their
\* values, in the order of Object.entries
MapJson(t, entries) == [t |-> t, entries |-> entries]
NoMap == MapJson("undef", <<>>)
Entry(k, v) == [k |-> k, v |-> v]

RECURSIVE NormalizeEntries(_, _)
NormalizeEntries(entries, normalized) ==
    IF entries = <<>> THEN normalized
    ELSE LET noteId == Head(entries).k
             maybePath == Head(entries).v
         IN IF Trim(noteId) = <<>> THEN NormalizeEntries(Tail(entries), normalized)
            ELSE IF maybePath.t # "str" \/ Trim(maybePath.v) = <<>>
            THEN NormalizeEntries(Tail(entries), normalized)
            ELSE NormalizeEntries(Tail(entries),
                                  Put(normalized, Trim(noteId),
                                      normalizePath(Trim(maybePath.v))))

normalizeNotePathById(value) ==
    IF value.t \notin {"obj", "arr"} THEN EmptyMap
    ELSE NormalizeEntries(value.entries, EmptyMap)

StateJson(t, lastSyncTime, notePathById) ==
    [t |-> t, lastSyncTime |-> lastSyncTime, notePathById |-> notePathById]
NoState == StateJson("undef", Undefined, NoMap)

\* the lastSyncTime both branches of normalizePersistedData compute
normalizeLastSyncTime_asStored(value) == StringOr(value, <<>>)

normalizeLastSyncTime(value) ==
    IF value.t = "str" /\ Trim(value.v) # <<>> THEN Trim(value.v)
    ELSE DEFAULT_LAST_SYNC_TIME

normalizeState(value) ==
    LET record == RecordOr(value, NoState)
    IN [lastSyncTime |-> normalizeLastSyncTime(record.lastSyncTime),
        notePathById |-> normalizeNotePathById(record.notePathById)]

\* ---- the stored value as JSON: the keys of the settings at the top level
\* (legacy), and schemaVersion, settings, state, lastSyncTime, notePathById,
\* noteMapping
SchemaVersionJson == NumVal(<<"2">>)

RawJson(t, keys, schemaVersion, settingsValue, state, lastSyncTime, notePathById, noteMapping) ==
    [k \in DOMAIN keys \cup {"t", "schemaVersion", "settings", "state",
                             "lastSyncTime", "notePathById", "noteMapping"} |->
        CASE k = "t" -> t
          [] k = "schemaVersion" -> schemaVersion
          [] k = "settings" -> settingsValue
          [] k = "state" -> state
          [] k = "lastSyncTime" -> lastSyncTime
          [] k = "notePathById" -> notePathById
          [] k = "noteMapping" -> noteMapping
          [] OTHER -> keys[k]]
NoRaw(t) ==
    RawJson(t, SettingsKeysAbsent, Undefined, NoSettingsJson, NoState, Undefined,
            NoMap, NoMap)

\* {...a, ...b}
SpreadMaps(a, b) ==
    [k \in DOMAIN a \cup DOMAIN b |-> IF k \in DOMAIN b THEN b[k] ELSE a[k]]

normalizePersistedData(raw, defaults) ==
    LET record == RecordOr(raw, NoRaw("obj"))
    IN IF /\ record.schemaVersion = SchemaVersionJson
          /\ record.settings.t = "obj"
          /\ record.state.t = "obj"
       THEN [schemaVersion |-> PERSISTED_SCHEMA_VERSION,
             settings |-> normalizeSettings(record.settings, defaults),
             state |-> normalizeState(record.state)]
       ELSE [schemaVersion |-> PERSISTED_SCHEMA_VERSION,
             settings |-> normalizeSettings(record, defaults),
             state |-> [lastSyncTime |-> normalizeLastSyncTime(record.lastSyncTime),
                        notePathById |->
                            SpreadMaps(normalizeNotePathById(record.noteMapping),
                                       normalizeNotePathById(record.notePathById))]]

\* ---- the stored values normalizePersistedData is applied to
\* settings written by the plugin, each with a value that is not its default
ValidKeys ==
    [token |-> StrVal(<<"t">>), isAutoSync |-> BoolTrue, dir |-> StrVal(<<"d">>),
     typeFolders |-> TypeFoldersJson("obj", BoolFalse, StrVal(<<"a">>), StrVal(<<"b">>)),
     zettelBoxFolders |-> ZettelBoxJson("obj", BoolTrue),
     template |-> StrVal(<<"x">>), filenameFormat |-> StrVal(<<"title">>),
     filenameTemplate |-> StrVal(<<"y">>), fileLayout |-> StrVal(<<"flat">>),
     ignoreSyncKey |-> StrVal(<<"k">>), preserveKeys |-> StrVal(<<"p">>),
     commandHotkeys |->
         HotkeysJson("obj",
                     HotkeyJson("obj", StrVal(<<"K">>),
                                [t |-> "arr", items |-> <<StrVal(<<"Mod">>)>>]),
                     NoHotkey, NoHotkey),
     dailyNotes |-> DailyNotesJson("obj", BoolTrue, StrVal(<<"h">>), StrVal(<<"top">>),
                                   BoolFalse, StrVal(<<"embed">>), BoolTrue)]

KeyBases == {ValidKeys, SettingsKeysAbsent}

StringInputs ==
    {Undefined, NullVal, StrVal(<<"x">>), StrVal(<<" ", "x", " ">>), StrVal(<<" ">>),
     StrVal(<<>>), NumVal(<<"5">>), BoolTrue}
BoolInputs == {Undefined, BoolTrue, BoolFalse, StrVal(<<"true">>)}
DirInputs ==
    {Undefined, StrVal(<<"d">>), StrVal(<<"/", "d", "/">>), StrVal(<<"/">>),
     StrVal(<<"/", " ", "/">>), StrVal(<<" ", "d", "/", " ">>), NumVal(<<"5">>)}
EnumInputs ==
    {Undefined, StrVal(<<"title">>), StrVal(<<"nested">>), StrVal(<<"bogus">>),
     StrVal(<<"top">>), StrVal(<<"embed">>), ArrayVal}
IgnoreKeyInputs ==
    {Undefined, StrVal(<<"k">>), StrVal(<<"k", " ", "k">>), StrVal(<<" ", "k">>),
     StrVal(<<" ">>), BoolFalse}
TypeFoldersInputs ==
    {NoTypeFolders,
     TypeFoldersJson("null", Undefined, Undefined, Undefined),
     TypeFoldersJson("str", Undefined, Undefined, Undefined),
     TypeFoldersJson("obj", BoolFalse, StrVal(<<"a">>), StrVal(<<"b">>)),
     TypeFoldersJson("obj", Undefined, StrVal(<<"a">>), Undefined),
     TypeFoldersJson("obj", Undefined, StrVal(DefaultMaterialFolder), Undefined),
     TypeFoldersJson("obj", StrVal(<<"x">>), StrVal(<<"a">>), StrVal(<<"a">>)),
     TypeFoldersJson("obj", BoolTrue, StrVal(<<".", ".">>), StrVal(<<"b">>)),
     TypeFoldersJson("obj", BoolTrue, StrVal(<<"/", "a", "/", "/", "c">>),
                     StrVal(<<"\\", "b", " ">>)),
     TypeFoldersJson("obj", BoolTrue, StrVal(<<"/">>), NumVal(<<"5">>))}
ZettelBoxInputs ==
    {NoZettelBox, ZettelBoxJson("obj", BoolTrue), ZettelBoxJson("obj", NumVal(<<"1">>)),
     ZettelBoxJson("arr", Undefined)}
DailyNotesInputs ==
    {NoDailyNotes,
     DailyNotesJson("str", Undefined, Undefined, Undefined, Undefined, Undefined, Undefined),
     DailyNotesJson("obj", BoolTrue, StrVal(<<"h">>), StrVal(<<"top">>), BoolFalse,
                    StrVal(<<"embed">>), BoolTrue),
     DailyNotesJson("obj", Undefined, Undefined, StrVal(<<"top">>), Undefined,
                    Undefined, Undefined),
     DailyNotesJson("obj", StrVal(<<"x">>), NumVal(<<"5">>), StrVal(<<"middle">>),
                    NullVal, StrVal(<<"link">>), ArrayVal)}
HotkeyInputs ==
    {NoHotkey,
     HotkeyJson("str", Undefined, NoModifiers),
     HotkeyJson("obj", StrVal(<<"k">>),
                [t |-> "arr", items |-> <<StrVal(<<"Shift">>), StrVal(<<"Mod">>),
                                          StrVal(<<"Shift">>), StrVal(<<"Hyper">>),
                                          NumVal(<<"5">>)>>]),
     HotkeyJson("obj", StrVal(KeyEsc), [t |-> "str", items |-> <<>>]),
     HotkeyJson("obj", StrVal(KeySpace), NoModifiers),
     HotkeyJson("obj", NumVal(<<"5">>), [t |-> "arr", items |-> <<>>])}
HotkeysInputs ==
    {NoHotkeys, HotkeysJson("arr", NoHotkey, NoHotkey, NoHotkey)}
    \cup {HotkeysJson("obj", h, NoHotkey, h) : h \in HotkeyInputs}

\* the sets of settings keys: one key of a base replaced
KeyInputs ==
    UNION {{[b EXCEPT !.token = v] : v \in StringInputs}
           \cup {[b EXCEPT !.preserveKeys = v] : v \in StringInputs}
           \cup {[b EXCEPT !.template = v, !.filenameTemplate = v] : v \in StringInputs}
           \cup {[b EXCEPT !.isAutoSync = v] : v \in BoolInputs}
           \cup {[b EXCEPT !.dir = v] : v \in DirInputs}
           \cup {[b EXCEPT !.filenameFormat = v, !.fileLayout = v] : v \in EnumInputs}
           \cup {[b EXCEPT !.ignoreSyncKey = v] : v \in IgnoreKeyInputs}
           \cup {[b EXCEPT !.typeFolders = v] : v \in TypeFoldersInputs}
           \cup {[b EXCEPT !.zettelBoxFolders = v] : v \in ZettelBoxInputs}
           \cup {[b EXCEPT !.dailyNotes = v] : v \in DailyNotesInputs}
           \cup {[b EXCEPT !.commandHotkeys = v] : v \in HotkeysInputs}
           : b \in KeyBases}

TimeInputs ==
    {Undefined, StrVal(<<"2024-01-01 10:00:00">>),
     StrVal(<<" ", "2024-01-01 10:00:00", " ">>), StrVal(<<" ">>),
     StrVal(<<"garbage">>), NumVal(<<"5">>)}
MapInputs ==
    {NoMap, MapJson("str", <<>>), MapJson("null", <<>>),
     MapJson("obj", <<Entry(IdA, StrVal(<<"d", "/", "a">>))>>),
     MapJson("obj", <<Entry(<<" ", "a">>, StrVal(<<" ", "/", "d", "/", "/", "a", "/">>)),
                      Entry(<<" ">>, StrVal(<<"q">>)),
                      Entry(IdB, NumVal(<<"5">>)),
                      Entry(<<"c">>, StrVal(<<" ">>)),
                      Entry(<<"e">>, StrVal(<<"/">>))>>),
     MapJson("arr", <<Entry(<<"0">>, StrVal(<<"d", "/", "a">>))>>)}
StateInputs ==
    {NoState, StateJson("str", Undefined, NoMap), StateJson("null", Undefined, NoMap)}
    \cup {StateJson("obj", time, map) : time \in TimeInputs, map \in MapInputs}

SchemaVersionInputs == {Undefined, SchemaVersionJson, NumVal(<<"1">>), StrVal(<<"2">>)}

RawInputs ==
    {NoRaw(t) : t \in {"undef", "null", "str", "num", "arr"}}
    \* legacy: everything at the top level
    \cup {RawJson("obj", keys, Undefined, NoSettingsJson, NoState,
                  StrVal(<<"2024-01-01 10:00:00">>), NoMap, NoMap) : keys \in KeyInputs}
    \cup {RawJson("obj", ValidKeys, Undefined, NoSettingsJson, NoState, time, map, mapping)
            : time \in TimeInputs, map \in MapInputs, mapping \in MapInputs}
    \* schema-versioned
    \cup {RawJson("obj", SettingsKeysAbsent, SchemaVersionJson,
                  SettingsJson("obj", keys),
                  StateJson("obj", StrVal(<<"2024-01-01 10:00:00">>), NoMap),
                  Undefined, NoMap, NoMap) : keys \in KeyInputs}
    \cup {RawJson("obj", SettingsKeysAbsent, version, SettingsJson(t, keys), state,
                  Undefined, NoMap, NoMap)
            : version \in SchemaVersionInputs, t \in {"obj", "undef", "str"},
              keys \in KeyBases, state \in StateInputs}
    \* a schema-versioned value that still has legacy keys at the top level
    \cup {RawJson("obj", ValidKeys, SchemaVersionJson, SettingsJson(t, SettingsKeysAbsent),
                  state, StrVal(<<"garbage">>),
                  MapJson("obj", <<Entry(IdA, StrVal(<<"d", "/", "a">>))>>), NoMap)
            : t \in {"obj", "undef"}, state \in {NoState, StateJson("obj", Undefined, NoMap)}}

\* ------------------------------------------------------- daily-note bridge
\* A line of a daily note is a string: a sequence of characters in which a
\* piece of text no operation looks into is written as one symbol.  A file is
\* the list of its lines as content.split(/\r?\n/) gives them, so a file that
\* ends with a newline has the empty line last; the files have one kind of
\* line ending.
MANAGED_BLOCK_START == <<"<!-- DINOX-SYNC:START -->">>
MANAGED_BLOCK_END == <<"<!-- DINOX-SYNC:END -->">>
DefaultHeading == <<"## Dinox Notes">>
PreviewLimit == 120

\* s.startsWith(prefix)
StartsWith(s, prefix) ==
    Len(s) >= Len(prefix) /\ SubSeq(s, 1, Len(prefix)) = prefix
\* s.slice(n)
Drop(s, n) == IF n >= Len(s) THEN <<>> ELSE SubSeq(s, n + 1, Len(s))

\* lines.findIndex(pred) for the lines after index from; 0 when there is none
\* (the lines are numbered from 1)
RECURSIVE FindLineAfter(_, _, _)
FindLineAfter(lines, sentinel, from) ==
    IF from >= Len(lines) THEN 0
    ELSE IF Trim(lines[from + 1]) = sentinel THEN from + 1
    ELSE FindLineAfter(lines, sentinel, from + 1)

\* normalizePath(notePath).replace(/\.md$/i, "")
toLinkTarget(notePath) ==
    IF notePath = <<>> THEN <<>>
    ELSE LET normalized == normalizePath(notePath)
         IN IF normalized[Len(normalized)] \in {".md", ".MD"}
            THEN SubSeq(normalized, 1, Len(normalized) - 1)
            ELSE normalized

\* target.split("/"): the last piece, or the target when that is empty
getDefaultTitle(target) ==
    IF target = <<>> \/ target[Len(target)] = "/" THEN target
    ELSE LET segments == PathSegments(target, <<>>)
         IN segments[Len(segments)]

\* preview.replace(/\s+/g, " ").trim(), cut to 120 characters
RECURSIVE CollapseSpaces(_)
CollapseSpaces(s) ==
    IF Len(s) < 2 THEN s
    ELSE IF s[1] = " " /\ s[2] = " " THEN CollapseSpaces(Tail(s))
    ELSE <<s[1]>> \o CollapseSpaces(Tail(s))

normalizePreview(preview) ==
    LET singleLine == Trim(CollapseSpaces(preview))
    IN IF Len(singleLine) <= PreviewLimit THEN singleLine
       ELSE SubSeq(singleLine, 1, PreviewLimit - 3) \o <<".", ".", ".">>

\* ---- /!?\[\[([^\]|#^>]+)(?:\|([^\]]+))?\]\]/ on a line
NotInTarget == {"]", "]]", "|", "#", "^", ">"}
NotInAlias == {"]", "]]"}

\* the longest run of characters outside stop, from the head of s
RECURSIVE RunOutside(_, _)
RunOutside(s, stop) ==
    IF s = <<>> \/ Head(s) \in stop THEN <<>>
    ELSE <<Head(s)>> \o RunOutside(Tail(s), stop)

NoMatch == [found |-> FALSE, target |-> <<>>, alias |-> Undefined]

\* the match that starts with the "[[" at the head of s, if there is one
MatchHere(s) ==
    LET target == RunOutside(Tail(s), NotInTarget)
        afterTarget == Drop(Tail(s), Len(target))
        alias == RunOutside(Drop(afterTarget, 1), NotInAlias)
        afterAlias == Drop(afterTarget, 1 + Len(alias))
    IN IF target = <<>> \/ afterTarget = <<>> THEN NoMatch
       ELSE IF Head(afterTarget) = "]]"
       THEN [found |-> TRUE, target |-> target, alias |-> Undefined]
       ELSE IF Head(afterTarget) = "|" /\ alias # <<>> /\ afterAlias # <<>>
               /\ Head(afterAlias) = "]]"
       THEN [found |-> TRUE, target |-> target, alias |-> StrVal(alias)]
       ELSE NoMatch

\* the first match in s, from the left
RECURSIVE MatchLink(_)
MatchLink(s) ==
    IF s = <<>> THEN NoMatch
    ELSE IF Head(s) = "[[" /\ MatchHere(s).found THEN MatchHere(s)
    ELSE MatchLink(Tail(s))

\* an entry of the managed block: title and preview are strings or undefined
Record(target, title, preview) == [target |-> target, title |-> title, preview |-> preview]

\* raw.trim().startsWith(">")
IsQuoteLine(line) == StartsWith(Trim(line), <<">">>)
\* trimmed.replace(/^>\s?/, "")
QuoteText(trimmed) ==
    IF StartsWith(trimmed, <<">", " ">>) THEN Drop(trimmed, 2) ELSE Drop(trimmed, 1)

RECURSIVE parseManagedEntries(_)
parseManagedEntries(lines) ==
    IF lines = <<>> THEN <<>>
    ELSE LET trimmed == Trim(Head(lines))
             withoutBullet == IF StartsWith(trimmed, <<"-", " ">>)
                              THEN TrimLeft(Drop(trimmed, 2)) ELSE trimmed
             match == MatchLink(withoutBullet)
             target == Trim(match.target)
             hasPreview == Len(lines) >= 2 /\ IsQuoteLine(lines[2])
             preview == IF hasPreview THEN StrVal(QuoteText(Trim(lines[2])))
                        ELSE Undefined
             title == IF match.alias.t = "str" THEN StrVal(Trim(match.alias.v))
                      ELSE Undefined
         IN IF trimmed = <<>> \/ ~match.found \/ target = <<>>
            THEN parseManagedEntries(Tail(lines))
            ELSE <<Record(target, title, preview)>>
                 \o parseManagedEntries(Drop(lines, IF hasPreview THEN 2 ELSE 1))

renderManagedEntry(entry, style) ==
    IF style = <<"embed">> THEN << <<"!", "[[">> \o entry.target \o <<"]]">> >>
    ELSE LET alias == IF entry.title.t = "str" THEN Trim(entry.title.v) ELSE <<>>
             link == IF alias # <<>> /\ alias # getDefaultTitle(entry.target)
                     THEN <<"[[">> \o entry.target \o <<"|">> \o alias \o <<"]]">>
                     ELSE <<"[[">> \o entry.target \o <<"]]">>
         IN IF entry.preview.t = "str" /\ entry.preview.v # <<>>
            THEN << <<"-", " ">> \o link, <<" ", " ", ">", " ">> \o entry.preview.v >>
            ELSE << <<"-", " ">> \o link >>

\* filteredEntries.findIndex(existing => existing.target === target), 0 for none
RECURSIVE IndexOfTarget(_, _, _)
IndexOfTarget(entries, target, from) ==
    IF from >= Len(entries) THEN 0
    ELSE IF entries[from + 1].target = target THEN from + 1
    ELSE IndexOfTarget(entries, target, from + 1)

\* one turn of the forEach over the additions
addEntry(filteredEntries, entry, settings) ==
    LET target == toLinkTarget(entry.notePath)
        trimmedTitle == IF entry.title.t = "str" THEN Trim(entry.title.v) ELSE <<>>
        displayTitle == IF trimmedTitle # <<>> THEN trimmedTitle
                        ELSE getDefaultTitle(target)
        preview == IF settings.includePreview /\ entry.preview.t = "str"
                      /\ entry.preview.v # <<>>
                   THEN StrVal(normalizePreview(entry.preview.v)) ELSE Undefined
        existingIndex == IndexOfTarget(filteredEntries, target, 0)
        existing == filteredEntries[existingIndex]
        prepared == Record(target, StrVal(displayTitle), preview)
    IN IF target = <<>> THEN filteredEntries
       ELSE IF existingIndex # 0
       THEN [filteredEntries EXCEPT ![existingIndex] =
                Record(target,
                       IF displayTitle # <<>> THEN StrVal(displayTitle) ELSE existing.title,
                       IF preview.t = "str" THEN preview ELSE existing.preview)]
       ELSE IF settings.insertTo = <<"top">> THEN <<prepared>> \o filteredEntries
       ELSE Append(filteredEntries, prepared)

RECURSIVE addEntries(_, _, _)
addEntries(filteredEntries, additions, settings) ==
    IF additions = <<>> THEN filteredEntries
    ELSE addEntries(addEntry(filteredEntries, Head(additions), settings),
                    Tail(additions), settings)

\* filteredEntries.flatMap(entry => renderManagedEntry(entry, linkStyle))
RECURSIVE renderEntries(_, _)
renderEntries(entries, style) ==
    IF entries = <<>> THEN <<>>
    ELSE renderManagedEntry(Head(entries), style) \o renderEntries(Tail(entries), style)

\* lines.join(newline), with a newline added when the text does not end with
\* one, as the list of lines of the text
withFinalNewline(lines) ==
    IF Len(lines) >= 2 /\ lines[Len(lines)] = <<>> THEN lines ELSE Append(lines, <<>>)

\* settings.heading?.trim() || "## Dinox Notes"
headingOf(settings) ==
    IF Trim(settings.heading) = <<>> THEN DefaultHeading ELSE Trim(settings.heading)

\* the lines with the managed block in place, and the indices of its
\* sentinel lines (numbered from 1)
locateManagedBlock(original, heading) ==
    LET start0 == FindLineAfter(original, MANAGED_BLOCK_START, 0)
        end0 == FindLineAfter(original, MANAGED_BLOCK_END, start0)
    IN IF start0 = 0 \/ end0 = 0
       THEN LET lines == (IF Trim(original[Len(original)]) # <<>>
                          THEN Append(original, <<>>) ELSE original)
                         \o <<heading, MANAGED_BLOCK_START, MANAGED_BLOCK_END, <<>> >>
                start == FindLineAfter(lines, MANAGED_BLOCK_START, 0)
            IN [lines |-> lines, start |-> start,
                end |-> FindLineAfter(lines, MANAGED_BLOCK_END, start)]
       ELSE IF start0 = 1 \/ Trim(original[start0 - 1]) # heading
       THEN [lines |-> SubSeq(original, 1, start0 - 1) \o <<heading>>
                       \o SubSeq(original, start0, Len(original)),
             start |-> start0 + 1, end |-> end0 + 1]
       ELSE [lines |-> original, start |-> start0, end |-> end0]

\* renderUpdatedContent: [isNull, lines]
renderUpdatedContent(original, additions, removals, settings) ==
    LET block == locateManagedBlock(original, headingOf(settings))
        lines == block.lines
        managedLines == SubSeq(lines, block.start + 1, block.end - 1)
        existingEntries == parseManagedEntries(managedLines)
        removalTargets == {toLinkTarget(removals[i].notePath) : i \in 1 .. Len(removals)}
        filteredEntries == SelectSeq(existingEntries,
                                     LAMBDA entry : entry.target \notin removalTargets)
        newManagedLines == renderEntries(addEntries(filteredEntries, additions, settings),
                                         settings.linkStyle)
        updated == withFinalNewline(SubSeq(lines, 1, block.start) \o newManagedLines
                                    \o SubSeq(lines, block.end, Len(lines)))
    IN [isNull |-> updated = original, lines |-> updated]

\* ---- the daily notes, change sets and settings of a run
MaxLines == 4

NotePathA == <<"d", "/", "a", ".md">>
NotePathB == <<"b", ".md">>
TextLine == <<"u">>
EntryLineA == <<"-", " ", "[[", "d", "/", "a", "]]">>
QuoteLine == <<" ", " ", ">", " ", "p">>

\* the lines a daily note is made of
LineAlphabet ==
    {MANAGED_BLOCK_START, MANAGED_BLOCK_END, DefaultHeading, <<>>, TextLine,
     EntryLineA, QuoteLine}

Contents == UNION {[1 .. n -> LineAlphabet] : n \in 1 .. MaxLines}

Payload(notePath, title, preview) ==
    [notePath |-> notePath, title |-> title, preview |-> preview]

ChangeSets ==
    {[added |-> <<>>, removed |-> <<>>],
     [added |-> <<Payload(NotePathA, StrVal(<<"a">>), Undefined)>>, removed |-> <<>>],
     [added |-> <<Payload(NotePathB, StrVal(<<"T">>), StrVal(<<"p", " ", " ", "q">>))>>,
      removed |-> <<>>],
     [added |-> <<>>, removed |-> <<Payload(NotePathA, Undefined, Undefined)>>],
     [added |-> <<Payload(NotePathB, Undefined, Undefined)>>,
      removed |-> <<Payload(NotePathA, Undefined, Undefined)>>]}

DailySettings(enabled, insertTo, createIfMissing, linkStyle, includePreview) ==
    [enabled |-> enabled, heading |-> DefaultHeading, insertTo |-> insertTo,
     createIfMissing |-> createIfMissing, linkStyle |-> linkStyle,
     includePreview |-> includePreview]

DailySettingsInputs ==
    {DailySettings(TRUE, <<"bottom">>, TRUE, <<"wikilink">>, FALSE),
     DailySettings(TRUE, <<"top">>, FALSE, <<"wikilink">>, TRUE),
     DailySettings(TRUE, <<"bottom">>, TRUE, <<"embed">>, FALSE),
     DailySettings(FALSE, <<"bottom">>, TRUE, <<"wikilink">>, FALSE)}

\* the daily note of the date: a file with its lines, or no file
NoFile == [exists |-> FALSE, lines |-> <<>>]
FileOf(lines) == [exists |-> TRUE, lines |-> lines]

\* ------------------------------------------------------------------ state
VARIABLES
    isSyncing,      \* the plugin's isSyncing flag
    settings,       \* the plugin's settings object
    persisted,      \* the plugin data held by the host (loadData / saveData)
    now,            \* the wall clock, in ticks
    vault,          \* the files and folders of the vault
    trash,          \* the files moved to the trash
    notices,        \* the transient notices on screen
    started,        \* the number of passes started so far
    pc,             \* where each syncNotes call stands
    pass,           \* the local variables of each syncNotes call
    ops,            \* the reset command and the settings save in flight
    pd,             \* a stored value and what normalizePersistedData makes of it
    dn,             \* a daily note and the call of applyChangesForDate on it
    dd,             \* the changed dates of a pass and the loop over them
    pu,             \* the note in the editor and the push command run on it
    pr              \* a note and the filename or folder resolved for it

vars == <<isSyncing, settings, persisted, now, vault, trash, notices, started, pc, pass,
          ops, pd, dn, dd, pu, pr>>

\* the values the pure functions of the plugin are applied to
harness == <<pd, dn, dd, pu, pr>>

\* what the sync pass and its triggers leave alone
others == <<ops, harness>>

\* (await this.loadData()) || {} when nothing is stored
NoSettings == "unset"
NoData == [settings |-> NoSettings, lastSyncTime |-> NoTime, notePathById |-> EmptyMap]

\* no reset and no settings save in flight; used counts those started so far
\* and resetAt is the number of passes started when the last reset completed
\* (-1 before any reset)
IdleOps == [savePc |-> "idle", saveData |-> NoData,
            resetPc |-> "idle", resetData |-> NoData,
            used |-> 0, resetAt |-> -1]

\* no call of applyChangesForDate has been made
NoDailyRun ==
    [phase |-> "none", file |-> NoFile, original |-> NoFile,
     changeSet |-> [added |-> <<>>, removed |-> <<>>],
     settings |-> DailySettings(FALSE, <<"bottom">>, TRUE, <<"wikilink">>, FALSE),
     result |-> "none", writes |-> 0]


\* no filename or folder has been resolved outside a pass
NoResolverRun == [phase |-> "none", kind |-> "none"]

\* no push command has been run
NoPushRun ==
    [phase |-> "none", op |-> "none", token |-> <<>>, content |-> <<>>,
     requests |-> <<>>, notice |-> "none"]

\* processApiResponse has no changed dates to go through
NoDatesRun ==
    [phase |-> "none", enabled |-> FALSE, dates |-> <<>>, attempted |-> <<>>,
     warned |-> FALSE, shown |-> <<>>, updatedDailyNotes |-> 0,
     counts |-> [processed |-> 0, deleted |-> 0],
     returned |-> [processed |-> -1, deleted |-> -1]]

\* normalizePersistedData has not been called
NotLoaded == [phase |-> "none", raw |-> NoRaw("undef"), out |-> <<>>]

NoResult == [status |-> "none", notePath |-> NoPath, noteData |-> NoteA]

IdlePass ==
    [syncStartTime |-> 0, pData |-> NoData,
     lastSyncTime |-> Sentinel, dayNotes |-> <<>>, queue |-> <<>>,
     ensuredFolders |-> {}, notePathById |-> EmptyMap, localIndex |-> EmptyMap,
     processed |-> 0, deleted |-> 0, result |-> NoResult, noteNotices |-> 0,
     notice |-> "none", error |-> "none", after |-> "none"]

\* the states in which a call is inside a sync pass
Running == {"loadData", "fetch", "ensureBase", "process", "save"}

Init ==
    /\ isSyncing = FALSE
    /\ \E inst \in Installations :
          /\ settings = inst.settings
          /\ vault = inst.vault
          /\ persisted = inst.persisted
    /\ now = 0
    /\ started = 0
    /\ trash = {}
    /\ notices = {}
    /\ pc = [c \in Calls |-> "idle"]
    /\ pass = [c \in Calls |-> IdlePass]
    /\ ops = IdleOps
    /\ pd = NotLoaded
    /\ dn = NoDailyRun
    /\ dd = NoDatesRun
    /\ pu = NoPushRun
    /\ pr = NoResolverRun

\* ---------------------------------------------------------------- triggers
TriggerKinds == {"statusBar", "command", "commandToLocal", "hotkey", "timer"}

\* the check each trigger makes before it calls syncNotes: the hotkey
\* handler makes none
callerSkips(kind, syncing) == kind # "hotkey" /\ syncing

\* the guard at the top of syncNotes
syncGuard_open(syncing) == FALSE

syncGuard(syncing) == syncing

\* A trigger arrives while a pass is running: a notice, nothing else (the
\* timer shows none).
TriggerRejected_cancels(kind) ==
    /\ kind # "timer"
    /\ callerSkips(kind, isSyncing) \/ syncGuard(isSyncing)
    /\ notices' = notices \cup {"syncInProgress"}
    /\ isSyncing' = FALSE
    /\ UNCHANGED <<settings, persisted, now, vault, trash, started, pc, pass>>
    /\ UNCHANGED others

TriggerRejected(kind) ==
    /\ kind # "timer"
    /\ callerSkips(kind, isSyncing) \/ syncGuard(isSyncing)
    /\ notices' = notices \cup {"syncInProgress"}
    /\ UNCHANGED <<isSyncing, settings, persisted, now, vault, trash, started, pc, pass>>
    /\ UNCHANGED others

\* syncNotes without a token: a notice, nothing else
TriggerNoToken(kind) ==
    /\ kind = "timer" => settings.isAutoSync
    /\ ~callerSkips(kind, isSyncing) /\ ~syncGuard(isSyncing)
    /\ settings.token = <<>>
    /\ notices' = notices \cup {"tokenMissing"}
    /\ UNCHANGED <<isSyncing, settings, persisted, now, vault, trash, started, pc, pass>>
    /\ UNCHANGED others

\* syncNotes up to its first await: the flag is set, the start time taken
\* and loadData is called.  The call takes the first free slot; after records
\* how the call that last used the slot ended.
StartPass(c, kind) ==
    /\ pc[c] = "idle"
    /\ \A d \in Calls : d < c => pc[d] # "idle"
    /\ started < MaxPasses
    /\ kind = "timer" => settings.isAutoSync
    /\ ~callerSkips(kind, isSyncing) /\ ~syncGuard(isSyncing)
    /\ settings.token # <<>>
    /\ isSyncing' = TRUE
    /\ started' = started + 1
    /\ pc' = [pc EXCEPT ![c] = "loadData"]
    /\ pass' = [pass EXCEPT ![c] = [IdlePass EXCEPT !.syncStartTime = now,
                                                    !.notice = "starting",
                                                    !.after = pass[c].notice]]
    /\ UNCHANGED <<settings, persisted, now, vault, trash, notices>>
    /\ UNCHANGED others

HideNotice(n) ==
    /\ n \in notices
    /\ notices' = notices \ {n}
    /\ UNCHANGED <<isSyncing, settings, persisted, now, vault, trash, started, pc, pass>>
    /\ UNCHANGED others

Tick ==
    /\ now < MaxTime
    /\ now' = now + 1
    /\ UNCHANGED <<isSyncing, settings, persisted, vault, trash, notices, started, pc, pass>>
    /\ UNCHANGED others

\* ------------------------------------------------------------ the pass
\* the catch and finally blocks of syncNotes: nothing is saved
persistedAfterAbort_saves(stored, p) ==
    [stored EXCEPT !.lastSyncTime = formatDate(p.syncStartTime)]

persistedAfterAbort(stored, p) == stored

\* step 5 of syncNotes: saveData({...pData, ...this.settings, lastSyncTime})
\* with the new watermark (and, as the design has it, the identity map of the
\* pass); pData is the copy read when the pass started
persistedAfterPass_withoutMap(st, p, endTime) ==
    [settings |-> st,
     lastSyncTime |-> newLastSyncTime(p.syncStartTime, endTime),
     notePathById |-> EmptyMap]

persistedAfterPass(st, p, endTime) ==
    [settings |-> st,
     lastSyncTime |-> newLastSyncTime(p.syncStartTime, endTime),
     notePathById |-> p.notePathById]

\* the pass ends in the catch block: failure notice with the message of the
\* error, then finally; the map in memory stays as the pass left it
Abort(c, v, p) ==
    /\ persisted' = persistedAfterAbort(persisted, p)
    /\ isSyncing' = FALSE
    /\ pc' = [pc EXCEPT ![c] = "idle"]
    /\ vault' = v
    /\ pass' = [pass EXCEPT ![c] = [IdlePass EXCEPT !.notice = "failed",
                                                    !.syncStartTime = p.syncStartTime,
                                                    !.error = p.error,
                                                    !.pData = p.pData,
                                                    !.notePathById = p.notePathById]]

\* loadData at line 757 resolves
LoadDataOk(c) ==
    /\ pc[c] = "loadData"
    /\ pc' = [pc EXCEPT ![c] = "fetch"]
    /\ pass' = [pass EXCEPT ![c] = [@ EXCEPT !.pData = persisted,
                                             !.lastSyncTime = lastSyncTimeFor(persisted)]]
    /\ UNCHANGED <<isSyncing, settings, persisted, now, vault, trash, notices, started>>
    /\ UNCHANGED others

\* loadData at line 757 rejects: the await is outside the try block, so the
\* call ends with neither catch nor finally having run
LoadDataFails(c) ==
    /\ pc[c] = "loadData"
    /\ pc' = [pc EXCEPT ![c] = "rejected"]
    /\ UNCHANGED <<isSyncing, settings, persisted, now, vault, trash, notices, started, pass>>
    /\ UNCHANGED others

\* the notes request returns resp, or the request itself rejects
FetchReturns_baseFirst(c, resp) ==
    /\ pc[c] = "fetch"
    /\ LET r == fetchNotesFromApi(resp)
           ensured == ensureFolderExists(vault, BaseDirOf(settings), "none")
       IN IF r.thrown
          THEN Abort(c, ensured.vault, [pass[c] EXCEPT !.error = "api"])
          ELSE /\ pc' = [pc EXCEPT ![c] = "ensureBase"]
               /\ pass' = [pass EXCEPT ![c] = [@ EXCEPT !.dayNotes = r.dayNotes]]
               /\ UNCHANGED <<isSyncing, persisted, vault>>
    /\ UNCHANGED <<settings, now, trash, notices, started>>
    /\ UNCHANGED others

FetchReturns(c, resp) ==
    /\ pc[c] = "fetch"
    /\ LET r == fetchNotesFromApi(resp)
       IN IF r.thrown
          THEN Abort(c, vault, [pass[c] EXCEPT !.error = "api"])
          ELSE /\ pc' = [pc EXCEPT ![c] = "ensureBase"]
               /\ pass' = [pass EXCEPT ![c] = [@ EXCEPT !.dayNotes = r.dayNotes]]
               /\ UNCHANGED <<isSyncing, persisted, vault>>
    /\ UNCHANGED <<settings, now, trash, notices, started>>
    /\ UNCHANGED others

FetchRejects(c) ==
    /\ pc[c] = "fetch"
    /\ Abort(c, vault, pass[c])
    /\ UNCHANGED <<settings, now, trash, notices, started>>
    /\ UNCHANGED others

\* the orchestrator's merge of the vault scan into the stored identity map:
\* stored entries win, the scan fills the gaps
mergeIdentityIndex(stored, scanned) ==
    [id \in DOMAIN stored \cup DOMAIN scanned |->
        IF id \in DOMAIN stored THEN stored[id] ELSE scanned[id]]

\* step 3 of syncNotes: the base folder is ensured; then the identity index
\* is built and the note loop starts (or, with no notes, saveData is called)
EnsureBase(c, fail) ==
    /\ pc[c] = "ensureBase"
    /\ LET r == ensureFolderExists(vault, BaseDirOf(settings), fail)
       IN IF r.thrown
          THEN Abort(c, r.vault, pass[c])
          ELSE \E scanned \in buildLocalNoteIdIndex(r.vault, BaseDirOf(settings)) :
                 LET queue == processingOrder(pass[c].dayNotes)
                 IN /\ vault' = r.vault
                    /\ pc' = [pc EXCEPT ![c] = IF queue = <<>> THEN "save" ELSE "process"]
                    /\ pass' = [pass EXCEPT ![c] =
                                  [@ EXCEPT !.queue = queue,
                                            !.localIndex = scanned,
                                            !.notePathById =
                                                mergeIdentityIndex(
                                                    pass[c].pData.notePathById,
                                                    scanned)]]
                    /\ UNCHANGED <<isSyncing, persisted>>
    /\ UNCHANGED <<settings, now, trash, notices, started>>
    /\ UNCHANGED others

countAfter_attempted(count, h, outcome) ==
    IF h.status = outcome \/ (outcome = "processed" /\ h.status = "skipped")
    THEN count + 1 ELSE count

\* deleted++ and processed++ of the note loop: a note counts for the outcome
\* handleNoteProcessing returned; one that threw reaches neither line
countAfter(count, h, outcome) ==
    IF ~h.thrown /\ h.status = outcome THEN count + 1 ELSE count

\* One turn of the note loop of processApiResponse: the folders of the note
\* are prepared (outside the try block), handleNoteProcessing runs inside
\* it, and the catch block shows a notice naming the note.
ProcessNote(c, fail) ==
    /\ pc[c] = "process"
    /\ pass[c].queue # <<>>
    /\ LET item == Head(pass[c].queue)
           noteData == item.noteData
           rest == Tail(pass[c].queue)
           folders == foldersForNote(settings, item.date, noteData)
           prep == ensureFoldersOnce(vault, pass[c].ensuredFolders, folders.prepare, fail)
           h == handleNoteProcessing(prep.vault, trash, pass[c].notePathById,
                                     pass[c].localIndex, settings, noteData,
                                     folders.datePath, fail)
           nextPc == IF rest = <<>> THEN "save" ELSE "process"
       IN IF prep.thrown
          THEN /\ Abort(c, prep.vault, pass[c])
               /\ trash' = trash
          ELSE IF h.thrown /\ noteFailureNoticeThrows(noteData)
          THEN /\ Abort(c, h.vault, pass[c])
               /\ trash' = h.trash
          ELSE /\ vault' = h.vault
               /\ trash' = h.trash
               /\ pc' = [pc EXCEPT ![c] = nextPc]
               /\ pass' = [pass EXCEPT ![c] =
                            [@ EXCEPT !.queue = rest,
                                      !.ensuredFolders = prep.ensured,
                                      !.notePathById = h.map,
                                      !.processed = countAfter(@, h, "processed"),
                                      !.deleted = countAfter(@, h, "deleted"),
                                      !.noteNotices = IF h.thrown THEN @ + 1 ELSE @,
                                      !.result = [status |-> h.status,
                                                  notePath |-> h.notePath,
                                                  noteData |-> noteData]]]
               /\ UNCHANGED <<isSyncing, persisted>>
    /\ UNCHANGED <<settings, now, notices, started>>
    /\ UNCHANGED others

\* saveData of step 5 resolves: the watermark is stored, the success notice
\* is shown and the finally block resets the flag
SaveOk(c) ==
    /\ pc[c] = "save"
    /\ persisted' = persistedAfterPass(settings, pass[c], now)
    /\ isSyncing' = FALSE
    /\ pc' = [pc EXCEPT ![c] = "idle"]
    /\ pass' = [pass EXCEPT ![c] =
                  [IdlePass EXCEPT !.notice = "complete",
                                   !.syncStartTime = pass[c].syncStartTime,
                                   !.processed = pass[c].processed,
                                   !.deleted = pass[c].deleted]]
    /\ UNCHANGED <<settings, now, vault, trash, notices, started>>
    /\ UNCHANGED others

\* saveData of step 5 rejects
SaveFails(c) ==
    /\ pc[c] = "save"
    /\ Abort(c, vault, pass[c])
    /\ UNCHANGED <<settings, now, trash, notices, started>>
    /\ UNCHANGED others

\* ------------------------------------------- reset command, settings save
\* The settings tab changes a setting in memory and calls saveSettings, whose
\* loadData reads the stored copy (main.ts 730, setting-tab.ts 150-152).
SaveSettingsRead ==
    /\ ops.savePc = "idle"
    /\ ops.used < MaxUserOps
    /\ settings' = [settings EXCEPT !.isAutoSync = ~@]
    /\ ops' = [ops EXCEPT !.savePc = "read", !.saveData = persisted,
                           !.used = @ + 1]
    /\ UNCHANGED <<isSyncing, persisted, now, vault, trash, notices, started, pc, pass, harness>>

\* saveData({...pData, ...this.settings}) of saveSettings (main.ts 734)
settingsSaveData(pData, st) == [pData EXCEPT !.settings = st]

SaveSettingsWrite ==
    /\ ops.savePc = "read"
    /\ persisted' = settingsSaveData(ops.saveData, settings)
    /\ ops' = [ops EXCEPT !.savePc = "idle", !.saveData = NoData]
    /\ UNCHANGED <<isSyncing, settings, now, vault, trash, notices, started, pc, pass, harness>>

\* the reset command: loadData reads the stored copy (main.ts 575)
ResetRead ==
    /\ ops.resetPc = "idle"
    /\ ops.used < MaxUserOps
    /\ ops' = [ops EXCEPT !.resetPc = "read", !.resetData = persisted,
                           !.used = @ + 1]
    /\ UNCHANGED <<isSyncing, settings, persisted, now, vault, trash, notices, started,
                   pc, pass, harness>>

\* saveData({...pData, lastSyncTime: "1900-01-01 00:00:00"}) (main.ts 576-579)
resetSaveData(pData) == [pData EXCEPT !.lastSyncTime = Sentinel]

\* the reset command writes and shows its notice (main.ts 576-580)
ResetWrite ==
    /\ ops.resetPc = "read"
    /\ persisted' = resetSaveData(ops.resetData)
    /\ notices' = notices \cup {"syncReset"}
    /\ ops' = [ops EXCEPT !.resetPc = "idle", !.resetData = NoData,
                           !.resetAt = started]
    /\ UNCHANGED <<isSyncing, settings, now, vault, trash, started, pc, pass, harness>>

Next ==
    \/ \E kind \in TriggerKinds : TriggerRejected(kind)
    \/ \E kind \in TriggerKinds : TriggerNoToken(kind)
    \/ \E c \in Calls, kind \in TriggerKinds : StartPass(c, kind)
    \/ \E n \in {"syncInProgress", "tokenMissing", "syncReset"} : HideNotice(n)
    \/ Tick
    \/ \E c \in Calls : LoadDataOk(c)
    \/ \E c \in Calls : LoadDataFails(c)
    \/ \E c \in Calls, resp \in Responses : FetchReturns(c, resp)
    \/ \E c \in Calls : FetchRejects(c)
    \/ \E c \in Calls, fail \in FailPoints : EnsureBase(c, fail)
    \/ \E c \in Calls, fail \in FailPoints : ProcessNote(c, fail)
    \/ \E c \in Calls : SaveOk(c)
    \/ \E c \in Calls : SaveFails(c)

Spec == Init /\ [][Next]_vars

\* The writers of the stored data: the steps of the sync pass that lead to its
\* saveData, the reset command and the settings save, from an installation
\* with one synced note.  Every behaviour of it is one of the plugin.
StoreInstallations ==
    {Start(IdFlat, VaultSynced, Stored(TimeVal(0), MapOfA))}

InitStore ==
    /\ Init
    /\ \E inst \in StoreInstallations :
          /\ settings = inst.settings
          /\ vault = inst.vault
          /\ persisted = inst.persisted

NextStore ==
    \/ \E c \in Calls, kind \in TriggerKinds : StartPass(c, kind)
    \/ Tick
    \/ \E c \in Calls : LoadDataOk(c)
    \/ \E c \in Calls, resp \in Responses : FetchReturns(c, resp)
    \/ \E c \in Calls, fail \in FailPoints : EnsureBase(c, fail)
    \/ \E c \in Calls, fail \in FailPoints : ProcessNote(c, fail)
    \/ \E c \in Calls : SaveOk(c)
    \/ SaveSettingsRead
    \/ SaveSettingsWrite
    \/ ResetRead
    \/ ResetWrite

SpecStore == InitStore /\ [][NextStore]_vars

\* normalizePersistedData applied to a stored value, as loadSettings applies it
\* when the plugin starts: nothing else of the plugin has run
Unstarted ==
    /\ isSyncing = FALSE
    /\ settings = IdFlat
    /\ vault = VaultFresh
    /\ persisted = Start(IdFlat, VaultFresh, Stored(NoTime, EmptyMap)).persisted
    /\ now = 0
    /\ started = 0
    /\ trash = {}
    /\ notices = {}
    /\ pc = [c \in Calls |-> "idle"]
    /\ pass = [c \in Calls |-> IdlePass]
    /\ ops = IdleOps

InitPersisted ==
    /\ Unstarted
    /\ \E raw \in RawInputs : pd = [phase |-> "raw", raw |-> raw, out |-> <<>>]
    /\ dn = NoDailyRun
    /\ dd = NoDatesRun
    /\ pu = NoPushRun
    /\ pr = NoResolverRun

Normalize ==
    /\ pd.phase = "raw"
    /\ pd' = [pd EXCEPT !.phase = "normalized",
                        !.out = normalizePersistedData(pd.raw, DEFAULT_SETTINGS)]
    /\ UNCHANGED <<isSyncing, settings, persisted, now, vault, trash, notices, started,
                   pc, pass, ops, dn, dd, pu, pr>>

NextPersisted == Normalize

SpecPersisted == InitPersisted /\ [][NextPersisted]_vars

\* ---- the daily-note bridge on one date
InitDaily ==
    /\ Unstarted
    /\ pd = NotLoaded
    /\ \E file \in {NoFile} \cup {FileOf(lines) : lines \in Contents},
          changeSet \in ChangeSets, st \in DailySettingsInputs :
          dn = [phase |-> "ready", file |-> file, original |-> file,
                changeSet |-> changeSet, settings |-> st, result |-> "none",
                writes |-> 0]
    /\ dd = NoDatesRun
    /\ pu = NoPushRun
    /\ pr = NoResolverRun

\* applyChangesForDate returns value without a write
ReturnsFalse == dn' = [dn EXCEPT !.phase = "done", !.result = "false"]

\* applyChangesForDate up to the file it works on: the early returns, the
\* core plugin's options and the date
ApplyChangesSkipped(available, dateValid) ==
    /\ dn.phase = "ready"
    /\ \/ ~dn.settings.enabled
       \/ dn.changeSet.added = <<>> /\ dn.changeSet.removed = <<>>
       \/ ~available
       \/ ~dateValid
    /\ IF ~dn.settings.enabled
          \/ (dn.changeSet.added = <<>> /\ dn.changeSet.removed = <<>>)
       THEN ReturnsFalse
       ELSE IF ~available
       THEN dn' = [dn EXCEPT !.phase = "done", !.result = "unavailable"]
       ELSE ReturnsFalse
    /\ UNCHANGED <<isSyncing, settings, persisted, now, vault, trash, notices, started,
                   pc, pass, ops, pd, dd, pu, pr>>

\* the test before vault.modify: the rendered content is not null and is not
\* the content that was read
contentChanged_always(updated, originalContent) == TRUE

contentChanged(updated, originalContent) ==
    ~(updated.isNull \/ updated.lines = originalContent)

\* resolveDailyNoteFile, vault.read, renderUpdatedContent and vault.modify
ApplyChangesForDate ==
    /\ dn.phase = "ready"
    /\ dn.settings.enabled
    /\ dn.changeSet.added # <<>> \/ dn.changeSet.removed # <<>>
    /\ IF ~dn.file.exists /\ ~dn.settings.createIfMissing
       THEN ReturnsFalse
       ELSE LET dailyNoteFile == IF dn.file.exists THEN dn.file ELSE FileOf(<< <<>> >>)
                updated == renderUpdatedContent(dailyNoteFile.lines, dn.changeSet.added,
                                                dn.changeSet.removed, dn.settings)
            IN IF ~contentChanged(updated, dailyNoteFile.lines)
               THEN dn' = [dn EXCEPT !.phase = "done", !.result = "false",
                                     !.file = dailyNoteFile]
               ELSE dn' = [dn EXCEPT !.phase = "done", !.result = "true",
                                     !.file = FileOf(updated.lines),
                                     !.writes = @ + 1]
    /\ UNCHANGED <<isSyncing, settings, persisted, now, vault, trash, notices, started,
                   pc, pass, ops, pd, dd, pu, pr>>

NextDaily ==
    \/ \E available \in BOOLEAN, dateValid \in BOOLEAN :
          ApplyChangesSkipped(available, dateValid)
    \/ ApplyChangesForDate

SpecDaily == InitDaily /\ [][NextDaily]_vars

\* ---- the aggregator on the entries of one date: the titles are the titles
\* of the remote notes (getDailyNoteEntryTitle), the previews the first text
\* line of the note (buildDailyNotePreview)
TitleBracketed == <<"x", "]", "y">>
TitlePiped == <<"x", "|", "y">>

EntryPayloads ==
    {Payload(NotePathA, StrVal(<<"a">>), Undefined),
     Payload(NotePathA, StrVal(<<"T">>), StrVal(<<"p", " ", " ", "q">>)),
     Payload(NotePathA, StrVal(TitlePiped), StrVal(<<"p">>)),
     Payload(NotePathB, StrVal(TitleBracketed), Undefined),
     Payload(NotePathB, StrVal(<<" ", "T", " ">>), StrVal(<<">", "p">>)),
     Payload(NotePathB, Undefined, Undefined)}

EntryChangeSets ==
    {[added |-> <<e>>, removed |-> <<>>] : e \in EntryPayloads}
    \cup {[added |-> <<e, f>>, removed |-> <<>>] : e, f \in EntryPayloads}

InitEntries ==
    /\ Unstarted
    /\ pd = NotLoaded
    /\ \E file \in {NoFile, FileOf(<<TextLine>>),
                     FileOf(<<MANAGED_BLOCK_START, EntryLineA, MANAGED_BLOCK_END>>)},
          changeSet \in EntryChangeSets, st \in DailySettingsInputs :
          dn = [phase |-> "ready", file |-> file, original |-> file,
                changeSet |-> changeSet, settings |-> st, result |-> "none",
                writes |-> 0]
    /\ dd = NoDatesRun
    /\ pu = NoPushRun
    /\ pr = NoResolverRun

SpecEntries == InitEntries /\ [][NextDaily]_vars

\* ---- applyChangesForDate on a daily note whose managed block was written by
\* earlier calls: the block is a list of rendered entries
MaxEntries == 2

NotePathC == <<"c", ".md">>

\* entries as renderManagedEntry has written them in wikilink style
WrittenEntries ==
    {Record(toLinkTarget(NotePathA), Undefined, Undefined),
     Record(toLinkTarget(NotePathA), StrVal(<<"t">>), StrVal(<<"p">>)),
     Record(toLinkTarget(NotePathB), StrVal(<<"T">>), Undefined),
     Record(toLinkTarget(NotePathB), StrVal(TitleBracketed), Undefined),
     Record(toLinkTarget(NotePathC), Undefined, StrVal(<<"q">>))}

WrittenBlocks ==
    {renderEntries(entries, <<"wikilink">>) :
        entries \in UNION {[1 .. n -> WrittenEntries] : n \in 0 .. MaxEntries}}

MergePayloads ==
    {Payload(NotePathA, StrVal(<<"a">>), Undefined),
     Payload(NotePathA, StrVal(<<"n">>), StrVal(<<"r", " ", " ", "s">>)),
     Payload(NotePathB, Undefined, Undefined),
     Payload(NotePathC, StrVal(<<"T">>), StrVal(<<"r">>))}

MergeChangeSets ==
    {[added |-> added, removed |-> removed] :
        added \in UNION {[1 .. n -> MergePayloads] : n \in 0 .. 2},
        removed \in {<<>>, <<Payload(NotePathA, Undefined, Undefined)>>,
                     <<Payload(NotePathB, Undefined, Undefined)>>}}

InitMerge ==
    /\ Unstarted
    /\ pd = NotLoaded
    /\ \E block \in WrittenBlocks, changeSet \in MergeChangeSets,
          st \in DailySettingsInputs :
          LET file == FileOf(<<DefaultHeading, MANAGED_BLOCK_START>> \o block
                             \o <<MANAGED_BLOCK_END, <<>> >>)
          IN dn = [phase |-> "ready", file |-> file, original |-> file,
                   changeSet |-> changeSet, settings |-> st, result |-> "none",
                   writes |-> 0]
    /\ dd = NoDatesRun
    /\ pu = NoPushRun
    /\ pr = NoResolverRun

SpecMerge == InitMerge /\ [][NextDaily]_vars

\* ---- processApiResponse after the notes: the loop over the changed dates
MaxDates == 3

\* how the call of applyChangesForDate for one date ends: it returns true or
\* false, throws DailyNotesUnavailableError, or throws something else
DateOutcomes == {"changed", "unchanged", "unavailable", "failed"}

Shown(notice, cause) == [notice |-> notice, cause |-> cause]

\* the orchestrator's callback: a warning, once (a one-shot warned flag)
onDailyNotesUnavailable(d) ==
    IF d.warned THEN d
    ELSE [d EXCEPT !.warned = TRUE,
                   !.shown = Append(@, Shown("dailyNotesUnavailable", "unavailable"))]

\* error instanceof DailyNotesUnavailableError
isUnavailableError_never(outcome) == FALSE

isUnavailableError(outcome) == outcome = "unavailable"

\* the catch block around the call for one date
catchDateError_rethrows(d, outcome) == [d EXCEPT !.phase = "threw"]

catchDateError(d, outcome) ==
    IF isUnavailableError(outcome) THEN onDailyNotesUnavailable(d)
    ELSE [d EXCEPT !.shown = Append(@, Shown("dailyNotesUpdateFailed", outcome))]

\* the notes of the pass have been handled: the counts are known and the
\* change sets of the dates are collected (none when daily notes are off)
InitDates ==
    /\ Unstarted
    /\ pd = NotLoaded
    /\ dn = NoDailyRun
    /\ pu = NoPushRun
    /\ pr = NoResolverRun
    /\ \E enabled \in BOOLEAN, n \in 0 .. MaxDates, warned \in BOOLEAN,
          processed \in 0 .. 1, deleted \in 0 .. 1 :
          dd = [NoDatesRun EXCEPT
                   !.phase = "dates", !.enabled = enabled,
                   !.dates = IF enabled THEN [i \in 1 .. n |-> i] ELSE <<>>,
                   !.warned = warned,
                   !.counts = [processed |-> processed, deleted |-> deleted]]

\* one turn of the loop over dailyNoteChanges
ApplyDate(outcome) ==
    /\ dd.phase = "dates"
    /\ dd.enabled
    /\ Len(dd.attempted) < Len(dd.dates)
    /\ LET date == dd.dates[Len(dd.attempted) + 1]
           called == [dd EXCEPT !.attempted =
                                   Append(@, [date |-> date, outcome |-> outcome])]
       IN dd' = IF outcome = "changed"
                THEN [called EXCEPT !.updatedDailyNotes = @ + 1]
                ELSE IF outcome = "unchanged" THEN called
                ELSE catchDateError(called, outcome)
    /\ UNCHANGED <<isSyncing, settings, persisted, now, vault, trash, notices, started,
                   pc, pass, ops, pd, dn, pu, pr>>

\* after the loop, or without it: the notice of the updated daily notes and
\* the return of the counts
ReturnCounts ==
    /\ dd.phase = "dates"
    /\ Len(dd.attempted) = Len(dd.dates)
    /\ dd' = [dd EXCEPT !.phase = "returned",
                        !.returned = dd.counts,
                        !.shown = IF dd.updatedDailyNotes > 0
                                  THEN Append(@, Shown("dailyNotesUpdated", "changed"))
                                  ELSE @]
    /\ UNCHANGED <<isSyncing, settings, persisted, now, vault, trash, notices, started,
                   pc, pass, ops, pd, dn, pu, pr>>

NextDates ==
    \/ \E outcome \in DateOutcomes : ApplyDate(outcome)
    \/ ReturnCounts

SpecDates == InitDates /\ [][NextDates]_vars

\* ---- push.ts: the current note sent to the service
\* the text in the editor is a list of lines; a line is a list of characters
\* in which a key, an ID or a title is one symbol
FmDelim == <<"---">>
Quote == "\""

\* value.trim(), without the quotes when it starts and ends with a quote
stripQuotes(value) ==
    LET trimmed == Trim(value)
    IN IF trimmed # <<>> /\ Head(trimmed) = Quote /\ trimmed[Len(trimmed)] = Quote
       THEN (IF Len(trimmed) <= 2 THEN <<>> ELSE SubSeq(trimmed, 2, Len(trimmed) - 1))
       ELSE trimmed

\* splitFrontmatter: the lines between the first line, when it is ---, and
\* the next --- line; null without such a pair
splitFrontmatter(lines) ==
    LET endIndex == FindLineAfter(lines, FmDelim, 1)
    IN IF lines = <<>> \/ Trim(lines[1]) # FmDelim \/ endIndex = 0
       THEN [frontmatter |-> NullVal, body |-> lines]
       ELSE [frontmatter |-> [t |-> "lines", v |-> SubSeq(lines, 2, endIndex - 1)],
             body |-> Drop(lines, endIndex)]

\* ^\s*key\s*: at the start of a line
IsKeyLine(line, key) ==
    LET t == TrimLeft(line)
    IN t # <<>> /\ Head(t) = key /\ StartsWith(TrimLeft(Tail(t)), <<":">>)

\* what follows the colon on a key line
AfterColon(line) == Drop(TrimLeft(Tail(TrimLeft(line))), 1)

\* the first line with something other than blanks, trimmed; <<>> for none
RECURSIVE FirstContent(_)
FirstContent(lines) ==
    IF lines = <<>> THEN <<>>
    ELSE IF Trim(Head(lines)) # <<>> THEN Trim(Head(lines))
    ELSE FirstContent(Tail(lines))

\* frontmatter.match(/^\s*key\s*:\s*(.+?)\s*$/mi): \s takes line ends as
\* well as blanks, so after a key with nothing behind its colon the group
\* is the next line that has text
RECURSIVE matchScalar(_, _)
matchScalar(lines, key) ==
    IF lines = <<>> THEN NullVal
    ELSE IF ~IsKeyLine(Head(lines), key) THEN matchScalar(Tail(lines), key)
    ELSE LET rest == AfterColon(Head(lines))
         IN IF Trim(rest) # <<>> THEN StrVal(Trim(rest))
            ELSE IF FirstContent(Tail(lines)) # <<>>
            THEN StrVal(FirstContent(Tail(lines)))
            ELSE IF rest # <<>> THEN StrVal(<<" ">>)
            ELSE NullVal

extractFrontmatterScalar(frontmatter, key) ==
    IF frontmatter.t # "lines" \/ frontmatter.v = <<>> THEN NullVal
    ELSE LET match == matchScalar(frontmatter.v, key)
         IN IF match.t = "null" \/ stripQuotes(match.v) = <<>> THEN NullVal
            ELSE StrVal(stripQuotes(match.v))

\* a ?? b
NullOr(a, b) == IF a.t = "null" THEN b ELSE a

\* the ID the host's parser reads under a key: the scalar on the key's own
\* line, null for a key without a value
RECURSIVE yamlScalar(_, _)
yamlScalar(lines, key) ==
    IF lines = <<>> THEN NullVal
    ELSE IF ~IsKeyLine(Head(lines), key) THEN yamlScalar(Tail(lines), key)
    ELSE IF stripQuotes(AfterColon(Head(lines))) = <<>>
            /\ Trim(AfterColon(Head(lines))) = <<>> THEN NullVal
    ELSE StrVal(stripQuotes(AfterColon(Head(lines))))

\* app.metadataCache.getFileCache(file)?.frontmatter
fileCache(lines) ==
    LET split == splitFrontmatter(lines)
    IN IF split.frontmatter.t # "lines"
       THEN [noteId |-> NullVal, source_app_id |-> NullVal]
       ELSE [noteId |-> yamlScalar(split.frontmatter.v, "noteId"),
             source_app_id |-> yamlScalar(split.frontmatter.v, "source_app_id")]

\* existingNoteId of createNoteToDinox
existingNoteId(lines) ==
    LET split == splitFrontmatter(lines)
    IN NullOr(extractFrontmatterScalar(split.frontmatter, "noteId"),
              extractFrontmatterScalar(split.frontmatter, "source_app_id"))

\* noteId of syncNoteToDinox: the text of the editor, then the host's cache
noteIdToSync(lines) ==
    LET fm == fileCache(lines)
        raw == NullOr(fm.noteId, fm.source_app_id)
    IN NullOr(existingNoteId(lines),
              IF raw.t = "str" /\ raw.v # <<>> THEN raw ELSE NullVal)

\* the lines of frontmatter the notes in the editor are made of
MaxFmLines == 2

FmLines ==
    {<<"noteId", ":", " ", "n1">>,
     <<"noteId", ":">>,
     <<"noteId", ":", " ", Quote, Quote>>,
     <<"source_app_id", ":", " ", "n2">>,
     <<"title", ":", " ", "T">>,
     <<>>}

BodyLine == <<"b">>

EditorContents ==
    {<<BodyLine>>}
    \cup {<<FmDelim>> \o fm \o <<FmDelim, BodyLine>> :
             fm \in UNION {[1 .. n -> FmLines] : n \in 0 .. MaxFmLines}}
    \cup {<<FmDelim, l, BodyLine>> : l \in FmLines}

\* how the request ends: the service accepts it, answers with an error
\* code (DinoxLogicError), or the request fails
RequestOutcomes == {"ok", "logicError", "error"}

InitPush ==
    /\ Unstarted
    /\ pd = NotLoaded
    /\ dn = NoDailyRun
    /\ dd = NoDatesRun
    /\ \E op \in {"create", "sync"}, token \in {<<>>, <<"k">>},
          content \in EditorContents :
          pu = [NoPushRun EXCEPT !.phase = "ready", !.op = op, !.token = token,
                                 !.content = content]
    /\ pr = NoResolverRun

Request(kind, noteId) == [kind |-> kind, noteId |-> noteId]

\* processFrontMatter(file, fm => fm.noteId = noteId) on the note's text
RECURSIVE setNoteId(_, _)
setNoteId(fm, noteId) ==
    IF fm = <<>> THEN << <<"noteId", ":", " ", noteId>> >>
    ELSE IF IsKeyLine(Head(fm), "noteId")
    THEN << <<"noteId", ":", " ", noteId>> >> \o Tail(fm)
    ELSE <<Head(fm)>> \o setNoteId(Tail(fm), noteId)

addNoteIdToFrontmatter(lines, noteId) ==
    LET split == splitFrontmatter(lines)
    IN IF split.frontmatter.t # "lines"
       THEN <<FmDelim, <<"noteId", ":", " ", noteId>>, FmDelim>> \o lines
       ELSE <<FmDelim>> \o setNoteId(split.frontmatter.v, noteId)
            \o <<FmDelim>> \o split.body

PushEnds(notice) == pu' = [pu EXCEPT !.phase = "done", !.notice = notice]

\* createNoteToDinox
CreateNoteToDinox(outcome) ==
    /\ pu.phase = "ready" /\ pu.op = "create"
    /\ IF pu.token = <<>> THEN PushEnds("tokenMissing")
       ELSE IF existingNoteId(pu.content).t # "null" THEN PushEnds("createAlreadyHasId")
       ELSE pu' = [pu EXCEPT
                      !.phase = "done",
                      !.requests = Append(@, Request("create", NullVal)),
                      !.content = IF outcome = "ok"
                                  THEN addNoteIdToFrontmatter(@, "n3") ELSE @,
                      !.notice = CASE outcome = "ok" -> "createSuccess"
                                   [] outcome = "logicError" -> "createFailed"
                                   [] OTHER -> "createError"]
    /\ UNCHANGED <<isSyncing, settings, persisted, now, vault, trash, notices, started,
                   pc, pass, ops, pd, dn, dd, pr>>

\* syncNoteToDinox
SyncNoteToDinox(outcome) ==
    /\ pu.phase = "ready" /\ pu.op = "sync"
    /\ IF pu.token = <<>> THEN PushEnds("tokenMissing")
       ELSE IF noteIdToSync(pu.content).t = "null" THEN PushEnds("syncNoId")
       ELSE pu' = [pu EXCEPT
                      !.phase = "done",
                      !.requests = Append(@, Request("update", noteIdToSync(pu.content))),
                      !.notice = CASE outcome = "ok" -> "syncNoteSuccess"
                                   [] outcome = "logicError" -> "syncNoteFailed"
                                   [] OTHER -> "syncNoteError"]
    /\ UNCHANGED <<isSyncing, settings, persisted, now, vault, trash, notices, started,
                   pc, pass, ops, pd, dn, dd, pr>>

NextPush ==
    \/ \E outcome \in RequestOutcomes : CreateNoteToDinox(outcome)
    \/ \E outcome \in RequestOutcomes : SyncNoteToDinox(outcome)

SpecPush == InitPush /\ [][NextPush]_vars

\* ---- the note loop on its own: a pass that has built its identity index
\* and is about to reconcile the notes of the response
MaxQueue == 2

PathX == NotePath(BaseDir, <<"x">>)
PathY == NotePath(BaseDir, <<"y">>)

\* the path a note titled T wants, and every path the collision policy
\* would try for note A in its place, are taken by files of other notes
CrowdedPaths ==
    {PathOfT} \cup {addSuffixToMarkdownPath(PathOfT, SuffixFor(IdA, k)) :
                       k \in 1 .. MaxSuffixAttempts}

VaultCrowded ==
    [p \in DOMAIN VaultBase \cup CrowdedPaths |->
        IF p \in CrowdedPaths THEN FileEntry(EmptyFm, "local") ELSE FolderEntry]

\* vaults with files that carry an ID, carry none, or share one
ReconcileVaults ==
    {VaultBase,
     VaultSynced,
     Put(Put(VaultBase, PathX, FileEntry(EmptyFm, "local")),
         PathY, FileEntry(LocalFm(IdA, Undefined, Undefined), "local")),
     Put(VaultSynced, PathY, FileEntry(LocalFm(IdA, Undefined, Undefined), "local")),
     Put(Put(VaultBase, PathX, FileEntry(LocalFm(IdB, Undefined, Undefined), "local")),
         PathY, FileEntry(LocalFm(IdA, Undefined, Undefined), "local")),
     VaultTitled,
     VaultCrowded,
     Put(VaultCrowded, PathOfA, FileEntry(LocalFm(IdA, Undefined, Undefined), "local"))}

\* the identity maps the store may hold: an entry may be stale, or point to
\* a file the user has put in the place of the note's file
StoredMaps == {EmptyMap, MapOfA, Put(EmptyMap, IdA, PathX)}

QueueItem(noteData) == [date |-> Day1, noteData |-> noteData]

Queues ==
    UNION {[1 .. n -> {QueueItem(NoteA), QueueItem(NoteADel), QueueItem(NoteB)}] :
              n \in 1 .. MaxQueue}

InitReconcile ==
    /\ isSyncing = TRUE
    /\ now = 0
    /\ started = 1
    /\ trash = {}
    /\ notices = {}
    /\ ops = IdleOps
    /\ pd = NotLoaded
    /\ dn = NoDailyRun
    /\ dd = NoDatesRun
    /\ pu = NoPushRun
    /\ pr = NoResolverRun
    /\ pc = [c \in Calls |-> IF c = 1 THEN "process" ELSE "idle"]
    /\ \E st \in {IdFlat, TitleFlat}, v \in ReconcileVaults, stored \in StoredMaps,
          queue \in Queues :
          \E scanned \in buildLocalNoteIdIndex(v, BaseDirOf(st)) :
             /\ settings = st
             /\ vault = v
             /\ persisted = Start(st, v, Stored(NoTime, stored)).persisted
             /\ pass = [c \in Calls |->
                          IF c = 1
                          THEN [IdlePass EXCEPT
                                   !.notice = "starting",
                                   !.pData = [settings |-> st, lastSyncTime |-> NoTime,
                                              notePathById |-> stored],
                                   !.queue = queue,
                                   !.localIndex = scanned,
                                   !.notePathById = mergeIdentityIndex(stored, scanned)]
                          ELSE IdlePass]

NextReconcile == \E c \in Calls, fail \in FailPoints : ProcessNote(c, fail)

SpecReconcile == InitReconcile /\ [][NextReconcile]_vars

\* ------------------------------------------------------------ properties
\* a step of call c inside its pass
PassStep(c) == pc[c] \in Running /\ (pc'[c] # pc[c] \/ pass'[c] # pass[c])
\* the step in which the pass of call c ends with the success notice
CompletesOk(c) == pc[c] = "save" /\ pc'[c] = "idle" /\ pass'[c].notice = "complete"
\* the step in which the pass of call c ends in the catch block
Aborts(c) == pc[c] \in Running /\ pc'[c] = "idle" /\ pass'[c].notice = "failed"
\* a turn of the note loop of call c that went on to the next note
Handled(c) == pc[c] = "process" /\ pass'[c].queue = Tail(pass[c].queue)
             /\ pc'[c] \in {"process", "save"}

FilesOf(v) == {p \in DOMAIN v : v[p].kind = "file"}

\* the note at the head of the loop of call c, and what it resolves to
HeadNote(c) == Head(pass[c].queue).noteData
HeadDesiredPath(c) ==
    NotePath(foldersForNote(settings, Head(pass[c].queue).date, HeadNote(c)).datePath,
             baseFilenameOf(settings, HeadNote(c)))
HeadResolved(c) ==
    resolveExistingFile(vault, pass[c].notePathById, pass[c].localIndex,
                        SourceIdOf(HeadNote(c)), HeadDesiredPath(c)).path

\* C1: at most one sync pass is in progress at any time, and while the
\* syncing flag is set no trigger starts a pass: no call leaves idle, so a
\* rejected call fetches nothing, touches no file and neither reads nor
\* writes the stored data.
AtMostOnePass == Cardinality({c \in Calls : pc[c] \in Running}) <= 1
NoStartWhileSyncing ==
    isSyncing => /\ \A c \in Calls : pc[c] = "idle" => pc'[c] = "idle"
                 /\ \/ UNCHANGED <<vault, trash, persisted>>
                    \/ \E c \in Calls : PassStep(c)
C1_MutualExclusion == []AtMostOnePass /\ [][NoStartWhileSyncing]_vars

\* a trigger was turned away while a pass was running
C1_Witness ==
    /\ \E c \in Calls : pc[c] \in {"fetch", "process"}
    /\ "syncInProgress" \in notices

\* C2: no step of a pass other than its successful end changes the stored
\* lastSyncTime; a pass that ends in the catch block has therefore left the
\* stored lastSyncTime as it was before the pass.
C2_AbortKeepsWatermark ==
    [][\A c \in Calls :
         PassStep(c) /\ ~CompletesOk(c)
            => persisted'.lastSyncTime = persisted.lastSyncTime]_vars

\* a pass has ended in the catch block with a watermark in the store
C2_Witness ==
    \E c \in Calls : /\ pc[c] = "idle" /\ pass[c].notice = "failed"
                     /\ persisted.lastSyncTime = TimeVal(0)

\* C3: the stored lastSyncTime is written by a pass only in the step that
\* ends it successfully, and the value written is the formatted time that was
\* taken when the call started, which no later step of the call changes.
C3_WatermarkIsStartTime ==
    [][\A c \in Calls :
         /\ PassStep(c) /\ persisted'.lastSyncTime # persisted.lastSyncTime
                => CompletesOk(c)
         /\ CompletesOk(c)
                => persisted'.lastSyncTime = formatDate(pass[c].syncStartTime)
         /\ pass'[c].syncStartTime # pass[c].syncStartTime
                => pc[c] = "idle" /\ pc'[c] = "loadData"
                   /\ pass'[c].syncStartTime = now]_vars

\* a pass has completed and stored its start time although the clock has
\* moved on to a later second since
C3_Witness ==
    \E c \in Calls : /\ pc[c] = "idle" /\ pass[c].notice = "complete"
                     /\ persisted.lastSyncTime = formatDate(pass[c].syncStartTime)
                     /\ formatDate(now) # formatDate(pass[c].syncStartTime)

\* C4: every pass that sets isSyncing resets it when it ends, whatever the
\* outcome: the flag is never set while no call is inside a pass.
C4_FlagResetWhenPassEnds == isSyncing => \E c \in Calls : pc[c] \in Running

\* C5: when the note at the head of the loop resolves to a file whose
\* frontmatter has the ignore key set to boolean true, the turn leaves that
\* file where it is with its content, puts nothing in the trash, and, when
\* handleNoteProcessing returns, its outcome is "skipped", also for a note
\* that the remote marks deleted.
C5_IgnoredUntouched ==
    [][\A c \in Calls :
         (/\ pc[c] = "process"
          /\ PassStep(c)
          /\ HeadResolved(c) # NoPath
          /\ vault[HeadResolved(c)].fm["ignore_sync"] = BoolTrue)
            => /\ HeadResolved(c) \in DOMAIN vault'
               /\ vault'[HeadResolved(c)] = vault[HeadResolved(c)]
               /\ trash' = trash
               /\ Handled(c) => pass'[c].result.status = "skipped"]_vars

\* a note marked deleted was skipped and its ignored file is still in place
C5_Witness ==
    \E c \in Calls : /\ pass[c].result.status = "skipped"
                     /\ pass[c].result.noteData.isDel
                     /\ IsTFile(vault, PathOfA)
                     /\ vault[PathOfA].fm["ignore_sync"] = BoolTrue
                     /\ trash = {}

\* C6: a failure raised while one note is handled never ends the pass: from
\* the note loop a pass goes on to the next note or to the save step, never
\* to the catch block of syncNotes.
C6_NoteFailureContained ==
    [][\A c \in Calls : pc[c] = "process" => ~Aborts(c)]_vars

\* C7: a note whose noteId is missing, empty or blank changes no file and
\* no identity-map entry, is answered with one per-note notice, and the loop
\* goes on to the remaining notes.
C7_EmptyIdRejected ==
    [][\A c \in Calls :
         (pc[c] = "process" /\ PassStep(c) /\ SourceIdOf(HeadNote(c)) = <<>>)
            => /\ FilesOf(vault') = FilesOf(vault)
               /\ \A p \in FilesOf(vault) : vault'[p] = vault[p]
               /\ trash' = trash
               /\ Handled(c)
               /\ pass'[c].notePathById = pass[c].notePathById
               /\ pass'[c].noteNotices = pass[c].noteNotices + 1]_vars

\* C8: every configured preserve key that the resolved file carries before
\* an update has the same value in the note's file once the note is reported
\* processed.
C8_PreserveKeysSurvive ==
    [][\A c \in Calls :
         (/\ Handled(c)
          /\ pass'[c].result.status = "processed"
          /\ HeadResolved(c) # NoPath)
            => \A k \in settings.preserveKeys \cap FmKeys :
                 vault[HeadResolved(c)].fm[k].t # "undef"
                    => /\ IsTFile(vault', pass'[c].result.notePath)
                       /\ vault'[pass'[c].result.notePath].fm[k]
                            = vault[HeadResolved(c)].fm[k]]_vars

\* C9: when a note marked deleted resolves to a file that is not ignored and
\* handleNoteProcessing returns, the outcome is "deleted", the file has left
\* the vault for the trash, and the identity map has no entry for the note.
C9_DeleteTrashes ==
    [][\A c \in Calls :
         (/\ Handled(c)
          /\ pass'[c].result.status # "error"
          /\ HeadNote(c).isDel
          /\ HeadResolved(c) # NoPath
          /\ vault[HeadResolved(c)].fm["ignore_sync"] # BoolTrue)
            => /\ pass'[c].result.status = "deleted"
               /\ pass'[c].deleted = pass[c].deleted + 1
               /\ HeadResolved(c) \notin DOMAIN vault'
               /\ [path |-> HeadResolved(c), entry |-> vault[HeadResolved(c)]]
                     \in trash'
               /\ SourceIdOf(HeadNote(c)) \notin DOMAIN pass'[c].notePathById]_vars

\* the file of note A was trashed on a remote delete
C9_Witness ==
    \E c \in Calls : /\ pass[c].result.status = "deleted"
                     /\ pass[c].result.noteData = NoteADel
                     /\ ~Exists(vault, PathOfA)
                     /\ \E t \in trash : t.path = PathOfA
                     /\ IdA \notin DOMAIN pass[c].notePathById

\* C10: when a note that is not deleted resolves to no file and
\* handleNoteProcessing returns, the outcome is "processed", exactly one file
\* has been created and none removed or rewritten, the new file is at the
\* collision-resolved desired path with the remote content, and the identity
\* map maps the note to that path.
C10_CreateAtUniquePath ==
    [][\A c \in Calls :
         (/\ Handled(c)
          /\ pass'[c].result.status # "error"
          /\ ~HeadNote(c).isDel
          /\ HeadResolved(c) = NoPath)
            => LET id == SourceIdOf(HeadNote(c))
                   target == resolveUniqueNotePath(vault, HeadDesiredPath(c), id, NoPath)
               IN /\ pass'[c].result.status = "processed"
                  /\ FilesOf(vault') = FilesOf(vault) \cup {target}
                  /\ target \notin FilesOf(vault)
                  /\ \A p \in FilesOf(vault) : vault'[p] = vault[p]
                  /\ vault'[target].fm = HeadNote(c).content.fm
                  /\ id \in DOMAIN pass'[c].notePathById
                  /\ pass'[c].notePathById[id] = target
                  /\ pass'[c].result.notePath = target]_vars

\* note A was created beside the file of another note that holds its
\* desired path
C10_Witness ==
    \E c \in Calls :
        /\ pass[c].result.status = "processed"
        /\ pass[c].result.noteData = NoteA
        /\ IsTFile(vault, PathOfT)
        /\ vault[PathOfT].fm["noteId"] = StrVal(IdB)
        /\ IdA \in DOMAIN pass[c].notePathById
        /\ pass[c].notePathById[IdA] = addSuffixToMarkdownPath(PathOfT, SuffixFor(IdA, 1))
        /\ IsTFile(vault, pass[c].notePathById[IdA])

\* C11: when a note that is not deleted resolves to no file and its desired
\* path is held by the file of another note, the note is created beside it
\* at the desired path with a suffix made of its own short id, and the file
\* at the desired path keeps its content; so two notes of one pass with the
\* same desired path end in two files.
C11_CollisionGetsOwnSuffix ==
    [][\A c \in Calls :
         (/\ Handled(c)
          /\ pass'[c].result.status = "processed"
          /\ ~HeadNote(c).isDel
          /\ HeadResolved(c) = NoPath
          /\ IsTFile(vault, HeadDesiredPath(c)))
            => LET id == SourceIdOf(HeadNote(c))
                   created == pass'[c].notePathById[id]
               IN /\ created # HeadDesiredPath(c)
                  /\ \E k \in 1 .. MaxSuffixAttempts :
                        created = addSuffixToMarkdownPath(HeadDesiredPath(c),
                                     [id |-> ShortId(id), n |-> k])
                  /\ created \notin DOMAIN vault
                  /\ IsTFile(vault', created)
                  /\ vault'[created].fm = HeadNote(c).content.fm
                  /\ vault'[HeadDesiredPath(c)] = vault[HeadDesiredPath(c)]]_vars

\* a pass that found no note file in the vault has created note B at the
\* shared desired path and note A beside it under its own suffix
C11_Witness ==
    \E c \in Calls :
        /\ pass[c].localIndex = EmptyMap
        /\ pass[c].processed = 2
        /\ IsTFile(vault, PathOfT)
        /\ vault[PathOfT].fm["noteId"] = StrVal(IdB)
        /\ vault[PathOfT].body = "remote"
        /\ LET beside == addSuffixToMarkdownPath(PathOfT,
                            [id |-> <<"a", "1">>, n |-> 1])
           IN /\ IsTFile(vault, beside)
              /\ vault[beside].fm["noteId"] = StrVal(IdA)
              /\ pass[c].notePathById = Put(Put(EmptyMap, IdB, PathOfT), IdA, beside)

C13_IndependentWrites ==
    [][/\ (ops.savePc = "read" /\ ops'.savePc = "idle")
            => /\ persisted'.lastSyncTime = persisted.lastSyncTime
               /\ persisted'.notePathById = persisted.notePathById
       /\ \A c \in Calls :
            CompletesOk(c) => persisted'.settings = settings]_vars

\* C14: the write of the reset command stores the sentinel and leaves every
\* other stored field as it is immediately before it, and the first pass
\* started after a reset has completed sends the sentinel as its watermark.
C14_ResetForcesFullFetch ==
    [][/\ (ops.resetPc = "read" /\ ops'.resetPc = "idle")
            => /\ persisted'.lastSyncTime = Sentinel
               /\ persisted'.settings = persisted.settings
               /\ persisted'.notePathById = persisted.notePathById
       /\ \A c \in Calls :
            (/\ pc[c] = "loadData" /\ pc'[c] = "fetch"
             /\ ops.resetAt # -1
             /\ started = ops.resetAt + 1)
                => pass'[c].lastSyncTime = Sentinel]_vars

AcceptedResponse(resp) ==
    /\ resp.status = 200
    /\ resp.json.isRecord
    /\ resp.json.code = StrVal(SuccessCode)
    /\ resp.json.data.kind \in {"undefined", "array"}

C16_FetchAcceptsOnlySuccess ==
    [][\A c \in Calls : \A resp \in Responses :
         FetchReturns(c, resp)
            => IF AcceptedResponse(resp)
               THEN /\ pc'[c] = "ensureBase"
                    /\ \A i \in 1 .. Len(pass'[c].dayNotes) :
                          \E j \in 1 .. Len(resp.json.data.items) :
                             pass'[c].dayNotes[i] = resp.json.data.items[j]
               ELSE /\ Aborts(c)
                    /\ persisted' = persisted]_vars

\* a pass has ended in the catch block with the error of fetchNotesFromApi
\* while the store holds a watermark
C16_Witness ==
    \E c \in Calls : /\ pc[c] = "idle" /\ pass[c].notice = "failed"
                     /\ pass[c].error = "api"
                     /\ pass[c].pData.lastSyncTime = TimeVal(0)
                     /\ persisted.lastSyncTime = TimeVal(0)

\* C17: a pass that finds a stored lastSyncTime that is present but is no
\* date-time sends the sentinel 1900-01-01 00:00:00 to the notes endpoint.
C17_UnparseableWatermarkUsesSentinel ==
    [][\A c \in Calls :
         (pc[c] = "loadData" /\ pc'[c] = "fetch" /\ persisted.lastSyncTime = Garbage)
            => pass'[c].lastSyncTime = Sentinel]_vars

\* C18: normalizePersistedData returns, for every stored value (nothing, a
\* value that is no object, a legacy object, a schema-versioned object, with
\* keys of a wrong type or outside their range), a value with schemaVersion 2
\* whose settings and state lie in their allowed sets: the booleans are
\* booleans, filenameFormat, fileLayout, insertTo and linkStyle are one of
\* their names, token and lastSyncTime are trimmed, dir, ignoreSyncKey and
\* lastSyncTime are not blank, ignoreSyncKey has no whitespace, the type
\* folders are two different clean relative paths, a hotkey has valid
\* modifiers once each in their order, and the identity map takes trimmed
\* ids that are not blank to normalised paths.
IsTrimmed(x) == Trim(x) = x
IsCleanSubpath(x) == sanitizeRelativeFolderSubpath(StrVal(x)) = [ok |-> TRUE, v |-> x]
AllowedHotkey(h) ==
    /\ h.key # KeyEsc /\ h.key # KeySpace
    /\ \A i \in 1 .. Len(h.modifiers) : h.modifiers[i] \in VALID_MODIFIERS
    /\ h.modifiers = SelectSeq(MODIFIER_ORDER,
                               LAMBDA m : \E i \in 1 .. Len(h.modifiers) : h.modifiers[i] = m)
AllowedSettings(st) ==
    /\ IsTrimmed(st.token)
    /\ st.isAutoSync \in BOOLEAN
    /\ st.dir # <<>> /\ IsTrimmed(st.dir)
    /\ st.typeFolders.enabled \in BOOLEAN
    /\ IsCleanSubpath(st.typeFolders.note) /\ IsCleanSubpath(st.typeFolders.material)
    /\ st.typeFolders.note # st.typeFolders.material
    /\ st.zettelBoxFolders.enabled \in BOOLEAN
    /\ st.filenameFormat \in FilenameFormats
    /\ st.fileLayout \in FileLayouts
    /\ st.ignoreSyncKey # <<>> /\ ~HasWhitespace(st.ignoreSyncKey)
    /\ \A k \in {"syncAll", "syncCurrentNote", "createNote"} :
          AllowedHotkey(st.commandHotkeys[k])
    /\ st.dailyNotes.enabled \in BOOLEAN
    /\ st.dailyNotes.createIfMissing \in BOOLEAN
    /\ st.dailyNotes.includePreview \in BOOLEAN
    /\ st.dailyNotes.insertTo \in {<<"top">>, <<"bottom">>}
    /\ st.dailyNotes.linkStyle \in {<<"wikilink">>, <<"embed">>}
AllowedState(state) ==
    /\ state.lastSyncTime # <<>> /\ IsTrimmed(state.lastSyncTime)
    /\ \A id \in DOMAIN state.notePathById :
          /\ id # <<>> /\ IsTrimmed(id)
          /\ normalizePath(state.notePathById[id]) = state.notePathById[id]

C18_NormalizedIsWellFormed ==
    pd.phase = "normalized"
        => /\ pd.out.schemaVersion = PERSISTED_SCHEMA_VERSION
           /\ AllowedSettings(pd.out.settings)
           /\ AllowedState(pd.out.state)

\* a legacy object with a filenameFormat that is no name of a format and a
\* schema-versioned object whose state is no object have been normalised
C18_Witness ==
    /\ pd.phase = "normalized"
    /\ pd.raw.t = "obj"
    /\ \/ pd.raw.schemaVersion = Undefined /\ pd.raw.filenameFormat = StrVal(<<"bogus">>)
       \/ pd.raw.schemaVersion = SchemaVersionJson /\ pd.raw.state.t = "str"

\* C19: for a schema-versioned object, every key of the settings and of the
\* state that is present with a value of its allowed set has that value in
\* the result, and every key that is missing (the settings or the state
\* object as a whole included) has its default.
ScalarKeys == {"token", "dir", "template", "filenameFormat", "filenameTemplate",
               "fileLayout", "ignoreSyncKey", "preserveKeys"}
AllowedScalar(k, x) ==
    CASE k = "token" -> IsTrimmed(x)
      [] k = "dir" -> x # <<>> /\ IsTrimmed(x) /\ StripSlashes(x) = x
      [] k = "filenameFormat" -> x \in FilenameFormats
      [] k = "fileLayout" -> x \in FileLayouts
      [] k = "ignoreSyncKey" -> x # <<>> /\ ~HasWhitespace(x)
      [] OTHER -> TRUE
IsMissing(obj, k) == obj.t = "undef" \/ (obj.t = "obj" /\ obj[k].t = "undef")
IsPresent(obj, k) == obj.t = "obj" /\ obj[k].t # "undef"

C19_PresentKeysKept ==
    (pd.phase = "normalized" /\ pd.raw.t = "obj"
        /\ pd.raw.schemaVersion = SchemaVersionJson)
        => /\ \A k \in ScalarKeys :
                /\ (IsPresent(pd.raw.settings, k) /\ pd.raw.settings[k].t = "str"
                        /\ AllowedScalar(k, pd.raw.settings[k].v))
                      => pd.out.settings[k] = pd.raw.settings[k].v
                /\ IsMissing(pd.raw.settings, k)
                      => pd.out.settings[k] = DEFAULT_SETTINGS[k]
           /\ (IsPresent(pd.raw.settings, "isAutoSync")
                   /\ pd.raw.settings.isAutoSync.t = "bool")
                 => pd.out.settings.isAutoSync = (pd.raw.settings.isAutoSync = BoolTrue)
           /\ IsMissing(pd.raw.settings, "isAutoSync")
                 => pd.out.settings.isAutoSync = DEFAULT_SETTINGS.isAutoSync
           /\ (IsPresent(pd.raw.state, "lastSyncTime")
                   /\ pd.raw.state.lastSyncTime.t = "str"
                   /\ pd.raw.state.lastSyncTime.v # <<>>
                   /\ IsTrimmed(pd.raw.state.lastSyncTime.v))
                 => pd.out.state.lastSyncTime = pd.raw.state.lastSyncTime.v
           /\ IsMissing(pd.raw.state, "lastSyncTime")
                 => pd.out.state.lastSyncTime = DEFAULT_LAST_SYNC_TIME

\* C20: a call of applyChangesForDate that writes the daily note leaves every
\* line outside the managed block as it was and where it was.  When the note
\* had a START line with an END line after it, the lines before that START
\* and the lines after that END are kept, and between them stand the heading
\* (at most one line more than before), the START line, the new block and the
\* END line; when it had no such pair (no sentinel line, a START without an
\* END after it, an END alone), all its lines are kept in front of what is
\* added.  The only other change is the empty line at the end of the text.
OriginalLines == IF dn.original.exists THEN dn.original.lines ELSE << <<>> >>
OriginalStart == FindLineAfter(OriginalLines, MANAGED_BLOCK_START, 0)
OriginalEnd == FindLineAfter(OriginalLines, MANAGED_BLOCK_END, OriginalStart)
KeptAtEnd(lines, post) ==
    \/ Len(lines) >= Len(post)
          /\ SubSeq(lines, Len(lines) - Len(post) + 1, Len(lines)) = post
    \/ Len(lines) > Len(post)
          /\ SubSeq(lines, Len(lines) - Len(post), Len(lines)) = Append(post, <<>>)

C20_OutsideBlockUntouched ==
    (dn.phase = "done" /\ dn.result = "true")
        => LET L == OriginalLines
               R == dn.file.lines
               s == OriginalStart
               e == OriginalEnd
           IN IF s # 0 /\ e # 0
              THEN /\ Len(R) >= s
                   /\ SubSeq(R, 1, s - 1) = SubSeq(L, 1, s - 1)
                   /\ \/ R[s] = L[s]
                      \/ Len(R) > s /\ R[s] = DefaultHeading /\ R[s + 1] = L[s]
                   /\ KeptAtEnd(R, SubSeq(L, e, Len(L)))
              ELSE LET kept == IF L[Len(L)] = <<>> THEN SubSeq(L, 1, Len(L) - 1) ELSE L
                   IN Len(R) >= Len(kept) /\ SubSeq(R, 1, Len(kept)) = kept

\* C21: applyChangesForDate issues a write only when the content it rendered
\* differs from the content it read; when the change set leaves the content
\* as it was, the file is not written and the call returns false.
C21_WriteOnlyOnChange ==
    dn.phase = "done" =>
        /\ dn.writes <= 1
        /\ dn.writes = 1 <=> dn.result = "true"
        /\ dn.writes = 1 => dn.file.lines # OriginalLines
        /\ dn.file.exists /\ dn.file.lines = OriginalLines =>
              dn.writes = 0 /\ dn.result \in {"false", "unavailable"}

\* a change set that is not empty was applied to a note with a managed block
\* and left it as it was: nothing written, false returned
C21_Witness ==
    /\ dn.phase = "done" /\ dn.result = "false" /\ dn.writes = 0
    /\ dn.settings.enabled
    /\ dn.changeSet.removed # <<>>
    /\ dn.original.exists /\ OriginalStart > 0 /\ OriginalEnd > 0
    /\ dn.file = dn.original

\* the lines between the sentinel lines of a daily note
ManagedBlockOf(lines) ==
    LET start == FindLineAfter(lines, MANAGED_BLOCK_START, 0)
        end == FindLineAfter(lines, MANAGED_BLOCK_END, start)
    IN SubSeq(lines, start + 1, end - 1)

\* C22: the managed block the aggregator wrote, parsed and rendered again
\* with the same settings and no entry added or removed, is the block that
\* was parsed.
C22_RenderParseRoundTrip ==
    dn.phase = "done" /\ dn.result = "true" =>
        LET block == ManagedBlockOf(dn.file.lines)
        IN renderEntries(parseManagedEntries(block), dn.settings.linkStyle) = block

\* the dates whose call of applyChangesForDate threw
FailedDates == {i \in DOMAIN dd.attempted :
                   dd.attempted[i].outcome \in {"unavailable", "failed"}}

\* C23: a date whose daily-note update fails, with the unavailable condition
\* or with any other error, does not end the pass: nothing is thrown out of
\* the loop, the dates after it are attempted, and the counts of processed
\* and deleted notes are returned.
C23_DateFailureContained ==
    /\ dd.phase # "threw"
    /\ dd.phase = "returned" =>
          /\ [i \in DOMAIN dd.attempted |-> dd.attempted[i].date] = dd.dates
          /\ dd.returned = dd.counts

\* the first date failed unavailable, a later one with another error, a date
\* after a failure was attempted, and the counts came back
C23_Witness ==
    /\ dd.phase = "returned"
    /\ Len(dd.attempted) = MaxDates
    /\ dd.attempted[1].outcome = "unavailable"
    /\ dd.attempted[2].outcome = "failed"
    /\ dd.attempted[3].outcome = "changed"
    /\ dd.returned = dd.counts /\ dd.counts.processed = 1

\* C24: in one pass the unavailable condition is put before the user at most
\* once, however many dates fail with it.
C24_UnavailableSurfacedOnce ==
    Cardinality({i \in DOMAIN dd.shown : dd.shown[i].cause = "unavailable"}) <= 1

\* two dates failed unavailable and one warning was shown
C24_Witness ==
    /\ dd.phase = "returned"
    /\ Cardinality({i \in DOMAIN dd.attempted :
                       dd.attempted[i].outcome = "unavailable"}) >= 2
    /\ Cardinality({i \in DOMAIN dd.shown :
                       dd.shown[i].notice = "dailyNotesUnavailable"}) = 1

\* a step in which the "already syncing" notice comes up
Rejection == isSyncing /\ "syncInProgress" \notin notices
             /\ "syncInProgress" \in notices'

\* C25: a trigger turned away because a pass is running changes nothing but
\* the notice: the running pass, the flag, the stored data and the vault are
\* as before, and nothing is left behind that starts a pass later; a pass
\* starts only in the step of a trigger that found no pass running.
C25_RejectedTriggerLeavesPassAlone ==
    [][/\ Rejection =>
             UNCHANGED <<isSyncing, settings, persisted, vault, trash, started, pc, pass>>
       /\ started' # started =>
             ~isSyncing /\ \E c \in Calls, kind \in TriggerKinds : StartPass(c, kind)]_vars

\* the only pass so far ran to its end although a trigger was turned away
\* while it ran
C25_Witness ==
    /\ started = 1
    /\ "syncInProgress" \in notices
    /\ ~isSyncing
    /\ \E c \in Calls : pc[c] = "idle" /\ pass[c].notice = "complete"

\* a note's frontmatter carries an ID: noteId, or source_app_id, has a
\* value that is not empty, as the host reads the frontmatter
IsId(value) == value.t = "str" /\ value.v # <<>>
CarriesId(lines) ==
    IsId(fileCache(lines).noteId) \/ IsId(fileCache(lines).source_app_id)

\* C26: createNoteToDinox sends no create request for a note whose
\* frontmatter carries a noteId (or source_app_id), and syncNoteToDinox
\* sends no update request for a note whose frontmatter carries none.
C26_PushGuards ==
    [][/\ pu.op = "create" /\ CarriesId(pu.content) => pu'.requests = pu.requests
       /\ pu.op = "sync" /\ ~CarriesId(pu.content) => pu'.requests = pu.requests]_vars

\* the file a note is expected to resolve to, by the order of the lookups:
\* the entry of the identity map, the entry of the scan index, the file at
\* the desired path with the note's ID in its frontmatter; NoPath for none
ExpectedFile(v, map, index, id, desired) ==
    IF id \in DOMAIN map /\ IsTFile(v, map[id]) THEN map[id]
    ELSE IF id \in DOMAIN index /\ IsTFile(v, index[id]) THEN index[id]
    ELSE IF IsTFile(v, desired) /\ FrontmatterId(v[desired].fm) = StrVal(id) THEN desired
    ELSE NoPath

HeadExpected(c) ==
    ExpectedFile(vault, pass[c].notePathById, pass[c].localIndex,
                 SourceIdOf(HeadNote(c)), HeadDesiredPath(c))

\* the files of v other than the one at path are in w as they were
OthersUntouched(v, w, path) ==
    \A q \in FilesOf(v) \ {path} : q \in FilesOf(w) /\ w[q] = v[q]

\* C27: handleNoteProcessing takes as the note's file the entry of the
\* identity map when it is a file, else the entry of the scan index when it
\* is a file, else the file at the desired path when its frontmatter ID is
\* the noteId.  Seen by what the step does: a deleted note trashes that file
\* and no other, a processed note leaves every other file as it was and
\* creates a file only when none was found, and a map entry that names no
\* file is gone when nothing was found.
C27_ResolutionOrder ==
    [][\A c \in Calls : Handled(c) =>
          LET expected == HeadExpected(c)
              id == SourceIdOf(HeadNote(c))
              result == pass'[c].result
          IN /\ result.status = "deleted" =>
                   /\ expected # NoPath /\ result.notePath = expected
                   /\ ~Exists(vault', expected)
                   /\ OthersUntouched(vault, vault', expected)
             /\ result.status = "processed" =>
                   /\ OthersUntouched(vault, vault', expected)
                   /\ expected # NoPath =>
                         /\ Cardinality(FilesOf(vault')) = Cardinality(FilesOf(vault))
                         /\ result.notePath \in {expected} \cup (FilesOf(vault') \ FilesOf(vault))
                   /\ expected = NoPath => result.notePath \notin FilesOf(vault)
             /\ expected = NoPath /\ result.status \in {"skipped", "error"} =>
                   id \notin DOMAIN pass'[c].notePathById]_vars

\* the map named a file without the note's ID, the scan index another file
\* that carries it, and the update went to the file the map named (moved to
\* the desired path), the indexed file staying as it was
C27_Witness ==
    \E c \in Calls :
       /\ pass[c].result.status = "processed"
       /\ pass[c].result.noteData = NoteA
       /\ pass[c].result.notePath = PathOfA
       /\ IdA \in DOMAIN pass[c].pData.notePathById
       /\ pass[c].pData.notePathById[IdA] = PathX
       /\ ~Exists(vault, PathX)
       /\ IsTFile(vault, PathOfA) /\ vault[PathOfA].body = "remote"
       /\ IsTFile(vault, PathY) /\ vault[PathY].body = "local"
       /\ IdA \in DOMAIN pass[c].localIndex /\ pass[c].localIndex[IdA] = PathY

\* the collision-resolved path of the head note of call c: the desired path
\* when nothing (or the note's own file) is there, else the first free
\* candidate, else the desired path again
HeadCandidate(c) ==
    IF HeadExpected(c) = NoPath
    THEN resolveUniqueNotePath(vault, HeadDesiredPath(c), SourceIdOf(HeadNote(c)), NoPath)
    ELSE resolveUniqueNotePath(vault, HeadDesiredPath(c), SourceIdOf(HeadNote(c)),
                               HeadExpected(c))

\* every candidate was taken: the collision-resolved path is another file's
HeadGaveUp(c) ==
    /\ HeadCandidate(c) # HeadExpected(c)
    /\ Exists(vault, HeadCandidate(c))

\* the old path of the head note's file never shows the new content
OldPathKept(c) ==
    LET expected == HeadExpected(c)
    IN (expected # NoPath /\ expected # HeadCandidate(c) /\ Exists(vault', expected))
          => vault'[expected] = vault[expected]

\* the note of call c was processed into the file at path
ProcessedInto(c, path) ==
    LET id == SourceIdOf(HeadNote(c))
        result == pass'[c].result
    IN /\ result.notePath = path
       /\ IsTFile(vault', path) /\ vault'[path].body = "remote"
       /\ id \in DOMAIN pass'[c].notePathById
       /\ pass'[c].notePathById[id] = path

\* C28 as stated: a file found at a path other than the desired path is
\* renamed to the collision-resolved desired path before its content is
\* overwritten (the old path never shows the new content and is vacated),
\* and once the note is processed the identity map names the path where
\* the note's file is.
C28_RenameBeforeOverwrite ==
    [][\A c \in Calls : Handled(c) =>
          LET expected == HeadExpected(c)
              result == pass'[c].result
          IN /\ OldPathKept(c)
             /\ result.status = "processed" =>
                   /\ ProcessedInto(c, HeadCandidate(c))
                   /\ (expected # NoPath /\ expected # HeadCandidate(c))
                         => ~Exists(vault', expected)]_vars

\* C28 amended: the same, except when the collision policy gave up (the
\* desired path and each of its candidates is another file's): then the
\* file is not moved, its content is overwritten where it is, and the
\* identity map names that path.
C28_RenameUnlessGaveUp ==
    [][\A c \in Calls : (Handled(c) /\ HeadExpected(c) # NoPath) =>
          LET expected == HeadExpected(c)
              result == pass'[c].result
          IN IF HeadGaveUp(c)
             THEN result.status = "processed" => ProcessedInto(c, expected)
             ELSE /\ OldPathKept(c)
                  /\ result.status = "processed" =>
                        /\ ProcessedInto(c, HeadCandidate(c))
                        /\ expected # HeadCandidate(c) => ~Exists(vault', expected)]_vars

\* the file of note A, found through the stored map at a path other than
\* the desired one, was moved to the desired path and overwritten there
C28_Witness ==
    \E c \in Calls :
       /\ pass[c].result.status = "processed"
       /\ pass[c].result.noteData = NoteA
       /\ pass[c].result.notePath = PathOfT
       /\ IdA \in DOMAIN pass[c].pData.notePathById
       /\ pass[c].pData.notePathById[IdA] = PathOfA
       /\ ~Exists(vault, PathOfA)
       /\ IsTFile(vault, PathOfT) /\ vault[PathOfT].body = "remote"
       /\ IdA \in DOMAIN pass[c].notePathById
       /\ pass[c].notePathById[IdA] = PathOfT

\* C29: after each note the loop has handled, whether it was processed,
\* skipped, deleted or failed part-way, the identity map either has no entry
\* for the note's ID or names a path at which a file exists, and no other
\* ID of the map names that path.
C29_MapNamesExistingFiles ==
    [][\A c \in Calls : Handled(c) =>
          LET id == SourceIdOf(HeadNote(c))
              map == pass'[c].notePathById
          IN id \in DOMAIN map =>
                /\ IsTFile(vault', map[id])
                /\ \A other \in DOMAIN map \ {id} : map[other] # map[id]]_vars

\* the file of note A was moved to the desired path, the write of its
\* content failed, and the map still names the path the file has left
C29_StaleAfterFailedWrite ==
    \E c \in Calls :
       /\ pass[c].result.status = "error"
       /\ pass[c].result.noteData = NoteA
       /\ IdA \in DOMAIN pass[c].notePathById
       /\ pass[c].notePathById[IdA] = PathOfA
       /\ ~Exists(vault, PathOfA)
       /\ IsTFile(vault, PathOfT) /\ vault[PathOfT].body = "local"

\* the paths resolveUniqueNotePath may try for a note: its suffixed candidates
CandidatesOf(preferredPath, noteId) ==
    {addSuffixToMarkdownPath(preferredPath, SuffixFor(noteId, k)) :
        k \in 1 .. MaxSuffixAttempts}

\* the preferred path and each candidate is a file other than the note's own
AllOccupied(v, preferredPath, noteId, currentPath) ==
    \A p \in {preferredPath} \cup CandidatesOf(preferredPath, noteId) :
        Exists(v, p) /\ p # currentPath

\* C30: resolveUniqueNotePath answers with the preferred path or one of its
\* 50 suffixed candidates, with the preferred path when it and all 50
\* candidates are other files, and a note for which it gave up is reconciled
\* without an error when nothing else fails.
C30_GiveUpWithoutError ==
    [][\A c \in Calls : (Handled(c) /\ ProcessNote(c, "none")) =>
          LET id == SourceIdOf(HeadNote(c))
              desired == HeadDesiredPath(c)
          IN /\ HeadCandidate(c) \in {desired} \cup CandidatesOf(desired, id)
             /\ AllOccupied(vault, desired, id, HeadExpected(c)) =>
                   /\ HeadCandidate(c) = desired
                   /\ pass'[c].result.status # "error"]_vars

\* note A has no file, the path it wants and its 50 candidates are taken,
\* and the note ended in an error with no file written for it
C30_CreateOnTakenPath ==
    \E c \in Calls :
       /\ pass[c].result.status = "error"
       /\ pass[c].result.noteData = NoteA
       /\ AllOccupied(vault, PathOfT, IdA, NoPath)
       /\ settings.filenameFormat = "title"
       /\ IdA \notin DOMAIN pass[c].notePathById
       /\ \A p \in FilesOf(vault) : vault[p].body = "local"

\* the steps a call of syncNotes may take from one position to the next
PassOrder ==
    {<<"idle", "loadData">>, <<"loadData", "fetch">>, <<"loadData", "rejected">>,
     <<"fetch", "ensureBase">>, <<"fetch", "idle">>,
     <<"ensureBase", "process">>, <<"ensureBase", "save">>, <<"ensureBase", "idle">>,
     <<"process", "save">>, <<"process", "idle">>,
     <<"save", "idle">>}

\* C31: a call moves from the read of the stored data to the fetch, from the
\* fetch to the reconciling steps (base folder, then the notes) and from
\* these to the save, and from the fetch on it ends at idle (a call whose
\* read of the stored data rejects ends before the fetch); the vault and the
\* trash change only in the reconciling steps, which follow a fetch that
\* returned notes, and the stored data change only in the step that ends
\* the save, when no fetched note is left in the queue.
C31_PhasesInOrder ==
    [][/\ \A c \in Calls :
             /\ pc'[c] # pc[c] => <<pc[c], pc'[c]>> \in PassOrder
             /\ pc'[c] = "save" => pass'[c].queue = <<>>
             /\ pc'[c] = "process" => pass'[c].queue # <<>>
       /\ (vault' # vault \/ trash' # trash) =>
             \E c \in Calls : /\ pc[c] \in {"ensureBase", "process"}
                              /\ (pc'[c] # pc[c] \/ pass'[c] # pass[c])
       /\ persisted' # persisted =>
             \E c \in Calls : /\ pc[c] = "save" /\ pc'[c] = "idle"
                              /\ pass[c].queue = <<>>]_vars

\* a pass has gone through all its steps: a note was written to the vault
\* and the stored watermark is the start time of the pass
C31_Witness ==
    \E c \in Calls :
       /\ pc[c] = "idle" /\ pass[c].notice = "complete"
       /\ pass[c].processed >= 1
       /\ \E p \in FilesOf(vault) : vault[p].body = "remote"
       /\ persisted.lastSyncTime = formatDate(pass[c].syncStartTime)
       /\ ~isSyncing

\* the notes of one bucket from the last received to the first
RECURSIVE NotesLastFirst(_, _)
NotesLastFirst(date, notes) ==
    IF notes = <<>> THEN <<>>
    ELSE <<[date |-> date, noteData |-> notes[Len(notes)]]>>
         \o NotesLastFirst(date, SubSeq(notes, 1, Len(notes) - 1))

\* the notes of a response from the last bucket received to the first
RECURSIVE LastFirst(_)
LastFirst(days) ==
    IF days = <<>> THEN <<>>
    ELSE NotesLastFirst(days[Len(days)].date, days[Len(days)].notes)
         \o LastFirst(SubSeq(days, 1, Len(days) - 1))

\* C32: the note loop of a pass takes the buckets from the last received to
\* the first and the notes of each bucket from the last to the first, one
\* note per step: a step of the loop that does not end the pass in the
\* catch block handles the note at the head of what is left, with all its
\* effects on the vault and the map, and leaves the others in their order.
C32_ReverseOrderOneAtATime ==
    [][\A c \in Calls :
          /\ (pc[c] = "ensureBase" /\ pc'[c] \in {"process", "save"})
                => pass'[c].queue = LastFirst(pass[c].dayNotes)
          /\ (pc[c] = "process" /\ pass'[c] # pass[c] /\ pc'[c] # "idle")
                => /\ pass'[c].queue = Tail(pass[c].queue)
                   /\ pass'[c].result.noteData = Head(pass[c].queue).noteData
          /\ (pc[c] \in {"process", "save"} /\ pass'[c].queue # pass[c].queue)
                => pc[c] = "process"]_vars

\* of a bucket with the notes A and B in that order, B has been written and
\* A is the one left to handle
C32_Witness ==
    \E c \in Calls :
       /\ pc[c] = "process"
       /\ pass[c].dayNotes = <<Bucket(<<NoteA, NoteB>>)>>
       /\ pass[c].result.status = "processed"
       /\ pass[c].result.noteData = NoteB
       /\ Len(pass[c].queue) = 1 /\ Head(pass[c].queue).noteData = NoteA
       /\ IsTFile(vault, pass[c].result.notePath)

\* the note at the head of the loop of call c is the one the step before
\* has processed
HeadProcessedBefore(c) ==
    /\ pass[c].result.status = "processed"
    /\ pass[c].result.noteData = HeadNote(c)

\* C33: when the note the loop has just processed is handled again, the
\* vault has the same files at the same paths afterwards and the identity
\* map is as it was, and when the second handling ends as processed it
\* names the same path.  This includes a note that the first handling
\* placed at a suffixed path.
C33_SecondReconcileChangesNothing ==
    [][\A c \in Calls : (Handled(c) /\ HeadProcessedBefore(c)) =>
          /\ FilesOf(vault') = FilesOf(vault)
          /\ pass'[c].notePathById = pass[c].notePathById
          /\ pass'[c].result.status = "processed" =>
                pass'[c].result.notePath = pass[c].result.notePath]_vars

\* note A was created at its first suffixed path, the path of its title
\* being another note's, and was processed a second time at that path
C33_Witness ==
    \E c \in Calls :
       /\ pc[c] = "save"
       /\ pass[c].processed = 2
       /\ pass[c].result.status = "processed"
       /\ pass[c].result.noteData = NoteA
       /\ pass[c].result.notePath = addSuffixToMarkdownPath(PathOfT, SuffixFor(IdA, 1))
       /\ IsTFile(vault, PathOfT) /\ vault[PathOfT].body = "local"
       /\ Cardinality(FilesOf(vault)) = 2

\* C34: a turn of the loop for a note marked deleted that resolves to no
\* file ends as "skipped": the files of the vault are the same with the
\* same content, nothing is put in the trash, and neither count moves.
C34_DeleteWithoutFileSkips ==
    [][\A c \in Calls :
          (/\ pc[c] = "process" /\ pass'[c] # pass[c]
           /\ HeadNote(c).isDel
           /\ HeadExpected(c) = NoPath)
             => /\ Handled(c)
                /\ pass'[c].result.status = "skipped"
                /\ FilesOf(vault') = FilesOf(vault)
                /\ \A p \in FilesOf(vault) : vault'[p] = vault[p]
                /\ trash' = trash
                /\ pass'[c].deleted = pass[c].deleted
                /\ pass'[c].processed = pass[c].processed]_vars

\* the deleted note A had no file (the stored map named a path where there
\* is none): it was skipped, nothing is in the trash and nothing was counted
C34_Witness ==
    \E c \in Calls :
       /\ pass[c].result.status = "skipped"
       /\ pass[c].result.noteData = NoteADel
       /\ pass[c].deleted = 0 /\ pass[c].processed = 0
       /\ trash = {}
       /\ FilesOf(vault) = {}
       /\ IdA \in DOMAIN pass[c].pData.notePathById
       /\ IdA \notin DOMAIN pass[c].notePathById

\* the target a line of the block links to, as a reader of the note sees it:
\* what follows the first "[[" up to the first "|" or "]]"; <<>> for a line
\* without a link
RECURSIVE LinkTargetOf(_)
LinkTargetOf(line) ==
    IF line = <<>> THEN <<>>
    ELSE IF Head(line) = "[[" THEN RunOutside(Tail(line), {"|", "]]"})
    ELSE LinkTargetOf(Tail(line))

\* the targets of the entries of a block, in the order of their lines
RECURSIVE EntryTargets(_)
EntryTargets(block) ==
    IF block = <<>> THEN <<>>
    ELSE IF LinkTargetOf(Head(block)) = <<>> THEN EntryTargets(Tail(block))
    ELSE <<LinkTargetOf(Head(block))>> \o EntryTargets(Tail(block))

\* the lines of the entry of target in a block: its link line and the
\* preview line under it, if any
RECURSIVE EntryLinesOf(_, _)
EntryLinesOf(block, target) ==
    IF block = <<>> THEN <<>>
    ELSE IF LinkTargetOf(Head(block)) = target
    THEN IF Len(block) >= 2 /\ IsQuoteLine(block[2])
         THEN <<block[1], block[2]>> ELSE <<block[1]>>
    ELSE EntryLinesOf(Tail(block), target)

TargetsOf(payloads) == {toLinkTarget(payloads[i].notePath) : i \in DOMAIN payloads}
CountOf(targets, t) == Cardinality({i \in DOMAIN targets : targets[i] = t})

\* the last payload of the additions for a target
LastAdded(additions, t) ==
    additions[CHOOSE i \in DOMAIN additions :
                 /\ toLinkTarget(additions[i].notePath) = t
                 /\ \A j \in DOMAIN additions :
                       toLinkTarget(additions[j].notePath) = t => j <= i]

\* the link line of an entry with the title of a payload
LinkLineFor(t, payload) ==
    renderManagedEntry(Record(t, payload.title, Undefined), <<"wikilink">>)[1]

\* what the claim says of a run d of applyChangesForDate that has ended
MergedAsClaimed(d) ==
    LET before == EntryTargets(ManagedBlockOf(d.original.lines))
        block == ManagedBlockOf(d.file.lines)
        after == EntryTargets(block)
        added == TargetsOf(d.changeSet.added)
        removed == TargetsOf(d.changeSet.removed)
        other(t) == t \notin added \cup removed
    IN /\ \A t \in removed \ added : CountOf(after, t) = 0
       /\ \A t \in added :
             /\ CountOf(after, t) = 1
             /\ d.settings.linkStyle = <<"wikilink">> =>
                   LET payload == LastAdded(d.changeSet.added, t)
                       lines == EntryLinesOf(block, t)
                   IN /\ lines[1] = LinkLineFor(t, payload)
                      /\ (d.settings.includePreview /\ payload.preview.t = "str")
                            => /\ Len(lines) = 2
                               /\ QuoteText(Trim(lines[2]))
                                     = normalizePreview(payload.preview.v)
       /\ SelectSeq(after, other) = SelectSeq(before, other)

\* C35: after applyChangesForDate has applied a change set to a daily note,
\* the managed block has no entry for a removed path that is not also added,
\* exactly one entry for each added path (in wikilink style with the added
\* title, and with the added preview when previews are written and one was
\* given, also when the block had an entry for the path before), and the
\* entries of all other paths as before, in the same order.
C35_MergeIntoBlock ==
    [][(ApplyChangesForDate /\ dn.file.exists) => MergedAsClaimed(dn')]_vars

\* the preview lines of a block
PreviewLines(block) == {i \in DOMAIN block : IsQuoteLine(block[i])}

\* C36: in wikilink style, a managed block that applyChangesForDate writes
\* while previews are disabled in the daily-note settings has no preview
\* line under any of its entries.
C36_NoPreviewWhenDisabled ==
    [][(/\ ApplyChangesForDate /\ dn.file.exists
        /\ dn'.result = "true"
        /\ dn.settings.linkStyle = <<"wikilink">>
        /\ ~dn.settings.includePreview)
          => PreviewLines(ManagedBlockOf(dn'.file.lines)) = {}]_vars

\* previews are disabled, an entry was added to a block that had an entry
\* with a preview, and the block written has that preview line
C36_PreviewRewritten ==
    /\ dn.phase = "done" /\ dn.result = "true"
    /\ dn.settings.linkStyle = <<"wikilink">> /\ ~dn.settings.includePreview
    /\ dn.changeSet.removed = <<>>
    /\ TargetsOf(dn.changeSet.added) = {toLinkTarget(NotePathB)}
    /\ ManagedBlockOf(dn.original.lines)
          = renderManagedEntry(Record(toLinkTarget(NotePathC), Undefined, StrVal(<<"q">>)),
                               <<"wikilink">>)
    /\ PreviewLines(ManagedBlockOf(dn.file.lines)) # {}


\* ------------------------------------------- the filename schemes with dates
\* A createTime is a string of date symbols: a group of digits is one symbol
\* ("2024", "05"), the separators are symbols of their own.
FourDigits == {"2024"}
TwoDigits == {"00", "01", "02", "03", "05", "10", "31"}

\* Number(match[i]) on the digit groups the model uses
NumberOf(sym) ==
    CASE sym = "00" -> 0 [] sym = "01" -> 1 [] sym = "02" -> 2
      [] sym = "03" -> 3 [] sym = "05" -> 5 [] sym = "10" -> 10 [] sym = "31" -> 31
      [] sym = "2024" -> 2024 [] OTHER -> -1

NoDate == [ok |-> FALSE, y |-> "", mo |-> "", d |-> "", h |-> "", mi |-> "", s |-> ""]
DateOf(y, mo, d, h, mi, s) ==
    [ok |-> TRUE, y |-> y, mo |-> mo, d |-> d, h |-> h, mi |-> mi, s |-> s]

isValidDateParts(year, month, day, hours, minutes, seconds) ==
    /\ year >= 0 /\ year <= 9999
    /\ month >= 1 /\ month <= 12
    /\ day >= 1 /\ day <= 31
    /\ hours >= 0 /\ hours <= 23
    /\ minutes >= 0 /\ minutes <= 59
    /\ seconds >= 0 /\ seconds <= 59

\* the days of a month of 2024, for the roll-over test of parseLocalDateTime
DaysInMonth(month) ==
    IF month = 2 THEN 29 ELSE IF month \in {4, 6, 9, 11} THEN 30 ELSE 31

\* the digit groups of a string of the shape Y-M-D<sep>h:m:s
DateShaped(str, sep) ==
    /\ Len(str) = 11
    /\ str[1] \in FourDigits
    /\ \A i \in {3, 5, 7, 9, 11} : str[i] \in TwoDigits
    /\ str[2] = "-" /\ str[4] = "-" /\ str[6] = sep /\ str[8] = ":" /\ str[10] = ":"

PartsOf(str) ==
    IF isValidDateParts(NumberOf(str[1]), NumberOf(str[3]), NumberOf(str[5]),
                        NumberOf(str[7]), NumberOf(str[9]), NumberOf(str[11]))
       /\ NumberOf(str[5]) <= DaysInMonth(NumberOf(str[3]))
    THEN DateOf(str[1], str[3], str[5], str[7], str[9], str[11])
    ELSE NoDate

\* parseLocalDateTime: "YYYY-MM-DD HH:mm:ss" with parts that name a real
\* instant, else null
parseLocalDateTime(value) ==
    LET trimmed == Trim(value)
    IN IF DateShaped(trimmed, " ") THEN PartsOf(trimmed) ELSE NoDate

\* padStart(2, "0") of a number of the model
TwoDigitOf(n) == CHOOSE sym \in TwoDigits : NumberOf(sym) = n

\* a day past the end of its month, counted on into the next month
RolledOver(str) ==
    DateOf(str[1], TwoDigitOf(NumberOf(str[3]) + 1),
           TwoDigitOf(NumberOf(str[5]) - DaysInMonth(NumberOf(str[3]))),
           str[7], str[9], str[11])

\* new Date(trimmed) on what parseLocalDateTime turned down.  The ISO form
\* with "T" is read as local time and a string that is no date is an Invalid
\* Date on every host; a day past the end of its month in the local form is
\* for the host to refuse or to roll over.
hostDates(trimmed) ==
    IF DateShaped(trimmed, "T") THEN {PartsOf(trimmed)}
    ELSE IF /\ DateShaped(trimmed, " ")
            /\ NumberOf(trimmed[5]) > DaysInMonth(NumberOf(trimmed[3]))
            /\ NumberOf(trimmed[5]) <= 31
            /\ NumberOf(trimmed[3]) < 12
         THEN {NoDate, RolledOver(trimmed)}
    ELSE {NoDate}

\* parseDate: not a string or blank gives null, then the local form, then
\* whatever the host can read; the set of dates it may return
parseDate(value) ==
    IF value.t # "str" THEN {NoDate}
    ELSE LET trimmed == Trim(value.v)
         IN IF trimmed = <<>> THEN {NoDate}
            ELSE IF parseLocalDateTime(trimmed).ok THEN {parseLocalDateTime(trimmed)}
            ELSE hostDates(trimmed)

\* `${year}-${month}-${day}` with the parts padded to two digits
dateOnly(date) == <<date.y, "-", date.mo, "-", date.d>>
\* `${hours}${minutes}${seconds}`
timeShort(date) == <<date.h, date.mi, date.s>>
\* formatDate of a parsed date
formatParsed(date) == dateOnly(date) \o <<" ", date.h, ":", date.mi, ":", date.s>>

\* the placeholders of a filename template are single symbols
DefaultTemplate == <<"{{title}}", " ", "(", "{{createDate}}", ")">>

RECURSIVE renderTemplate(_, _, _, _, _)
\* the four replace calls of the template branch
renderTemplate(template, titlePart, date, time, sourceId) ==
    IF template = <<>> THEN <<>>
    ELSE LET piece == CASE Head(template) = "{{title}}" -> titlePart
                        [] Head(template) = "{{createDate}}" -> date
                        [] Head(template) = "{{createTime}}" -> time
                        [] Head(template) = "{{noteId}}" -> sourceId
                        [] OTHER -> <<Head(template)>>
         IN piece \o renderTemplate(Tail(template), titlePart, date, time, sourceId)

titleDateFallback_noteId(title, idName) == idName

\* format "titleDate" with a createTime that does not parse: the title when
\* there is one, else the id
titleDateFallback(title, idName) ==
    IF Trim(title) # <<>> THEN sanitizeFilename(title) ELSE idName

\* the filename schemes of handleNoteProcessing, all five of them, on the
\* date parseDate(noteData.createTime) came back with
baseFilenameFor(format, filenameTemplate, title, createDate, sourceId) ==
    LET idName == DashesToUnderscores(sourceId)
        hasTitle == Trim(title) # <<>>
        byFormat ==
            CASE format = "noteId" -> idName
              [] format = "title" -> IF hasTitle THEN sanitizeFilename(title) ELSE idName
              [] format = "time" ->
                    IF createDate.ok THEN sanitizeFilename(formatParsed(createDate))
                    ELSE idName
              [] format = "titleDate" ->
                    IF createDate.ok
                    THEN LET titlePart == IF hasTitle THEN sanitizeFilename(title)
                                          ELSE idName
                         IN sanitizeFilename(titlePart \o <<" ", "(">>
                                             \o dateOnly(createDate) \o <<")">>)
                    ELSE titleDateFallback(title, idName)
              [] format = "template" ->
                    IF createDate.ok
                    THEN LET titlePart == IF hasTitle THEN title ELSE idName
                             template == IF filenameTemplate # <<>> THEN filenameTemplate
                                         ELSE DefaultTemplate
                             rendered == renderTemplate(template, titlePart,
                                             dateOnly(createDate), timeShort(createDate),
                                             sourceId)
                         IN sanitizeFilename(IF Trim(rendered) # <<>> THEN rendered
                                             ELSE sourceId)
                    ELSE idName
              [] OTHER -> idName
    IN IF byFormat # <<>> THEN byFormat
       ELSE IF idName # <<>> THEN idName ELSE Untitled

SchemeFormats == {"noteId", "title", "time", "titleDate", "template", "other"}
FilenameTemplates ==
    {<<>>, DefaultTemplate, <<"{{createDate}}", "_", "{{createTime}}">>,
     <<"{{noteId}}", " ", "{{title}}">>}
FilenameTitles == {<<>>, <<" ">>, <<"t">>, <<"a", ":", " ", "b">>}
LocalTime == <<"2024", "-", "01", "-", "05", " ", "10", ":", "00", ":", "02">>
CreateTimes ==
    {Undefined, NumVal(<<"5">>), StrVal(<<>>), StrVal(<<" ">>), StrVal(<<"x">>),
     StrVal(LocalTime), StrVal(<<" ">> \o LocalTime),
     StrVal(<<"2024", "-", "02", "-", "31", " ", "10", ":", "00", ":", "00">>),
     StrVal(<<"2024", "-", "01", "-", "05", "T", "10", ":", "00", ":", "02">>)}
FilenameIds == {<<"a">>, <<"a", "-", "1">>}

InitFilename ==
    /\ Unstarted
    /\ pd = NotLoaded
    /\ dn = NoDailyRun
    /\ dd = NoDatesRun
    /\ pu = NoPushRun
    /\ \E format \in SchemeFormats, template \in FilenameTemplates,
          title \in FilenameTitles, createTime \in CreateTimes,
          sourceId \in FilenameIds :
          pr = [phase |-> "ready", kind |-> "filename", format |-> format,
                template |-> template, title |-> title, createTime |-> createTime,
                sourceId |-> sourceId, createDate |-> NoDate,
                baseFilename |-> <<>>]

\* handleNoteProcessing up to the base filename
ResolveFilename ==
    /\ pr.phase = "ready"
    /\ pr.kind = "filename"
    /\ \E createDate \in parseDate(pr.createTime) :
          pr' = [pr EXCEPT !.phase = "done",
                           !.createDate = createDate,
                           !.baseFilename = baseFilenameFor(pr.format, pr.template,
                                               pr.title, createDate, pr.sourceId)]
    /\ UNCHANGED <<isSyncing, settings, persisted, now, vault, trash, notices, started,
                   pc, pass, ops, pd, dn, dd, pu>>

SpecFilename == InitFilename /\ [][ResolveFilename]_vars


FilenameResolved == pr.phase = "done" /\ pr.kind = "filename"
BlankTitle == Trim(pr.title) = <<>>
IdFilename == DashesToUnderscores(pr.sourceId)

\* the scheme reads the title and there is none, or it reads createTime and
\* parseDate gave null
SchemeInputUnusable ==
    \/ pr.format \in {"title", "titleDate"} /\ BlankTitle
    \/ pr.format \in {"time", "titleDate", "template"} /\ ~pr.createDate.ok

\* C37 as stated: for the schemes title, time, titleDate and template, a
\* blank title or an unparseable createTime makes the base filename the ID
\* filename, the noteId with its dashes replaced by underscores.
C37_FallsBackToIdFilename ==
    (FilenameResolved /\ SchemeInputUnusable) => pr.baseFilename = IdFilename

\* C37 amended: scheme title with a blank title, and schemes time and template
\* with an unparseable createTime, give the ID filename; scheme titleDate with
\* an unparseable createTime gives the sanitized title and the ID filename
\* only when the title is blank too; scheme titleDate with a blank title and a
\* createTime that parses gives the composite name with the ID filename in
\* the title's place.
C37_FallsBackToTitleOrIdFilename ==
    FilenameResolved =>
        /\ (pr.format = "title" /\ BlankTitle) => pr.baseFilename = IdFilename
        /\ (pr.format \in {"time", "template"} /\ ~pr.createDate.ok)
              => pr.baseFilename = IdFilename
        /\ (pr.format = "titleDate" /\ ~pr.createDate.ok /\ BlankTitle)
              => pr.baseFilename = IdFilename
        /\ (pr.format = "titleDate" /\ ~pr.createDate.ok /\ ~BlankTitle)
              => pr.baseFilename = sanitizeFilename(pr.title)
        /\ (pr.format = "titleDate" /\ pr.createDate.ok /\ BlankTitle)
              => pr.baseFilename =
                    sanitizeFilename(IdFilename \o <<" ", "(">>
                                     \o dateOnly(pr.createDate) \o <<")">>)

\* scheme titleDate named a note after its title because createTime did not
\* parse
C37_Witness ==
    /\ FilenameResolved
    /\ pr.format = "titleDate"
    /\ pr.createTime = StrVal(<<"x">>)
    /\ ~pr.createDate.ok
    /\ pr.title = <<"a", ":", " ", "b">>
    /\ pr.sourceId = <<"a", "-", "1">>
    /\ pr.baseFilename = <<"a", "-", "b">>


\* ------------------------------------------------------ zettel-box folders
\* sanitizeFolderSegment keeps this many characters
MaxSegmentLen == 80

HexChars == Digits \cup {"a", "b", "c", "d", "e", "f", "A", "B", "C", "D", "E", "F"}
AllIn(s, chars) == \A i \in 1 .. Len(s) : s[i] \in chars

\* a UUID, 32 hex characters, or eight and more digits
looksLikeLikelyId(value) ==
    LET trimmed == Trim(value)
    IN IF trimmed = <<>> THEN FALSE
       ELSE \/ /\ Len(trimmed) = 36
               /\ \A i \in 1 .. 36 : IF i \in {9, 14, 19, 24} THEN trimmed[i] = "-"
                                     ELSE trimmed[i] \in HexChars
            \/ Len(trimmed) = 32 /\ AllIn(trimmed, HexChars)
            \/ Len(trimmed) >= 8 /\ AllIn(trimmed, Digits)

RECURSIVE CollapseRunsOf(_, _)
\* s.replace(/c+/g, "c")
CollapseRunsOf(s, ch) ==
    IF Len(s) < 2 THEN s
    ELSE IF s[1] = ch /\ s[2] = ch THEN CollapseRunsOf(Tail(s), ch)
    ELSE <<s[1]>> \o CollapseRunsOf(Tail(s), ch)

RECURSIVE StripLeading(_, _)
StripLeading(s, chars) ==
    IF s # <<>> /\ Head(s) \in chars THEN StripLeading(Tail(s), chars) ELSE s

RECURSIVE StripTrailing(_, _)
StripTrailing(s, chars) ==
    IF s # <<>> /\ s[Len(s)] \in chars
    THEN StripTrailing(SubSeq(s, 1, Len(s) - 1), chars) ELSE s

UpperOf(ch) ==
    CASE ch = "c" -> "C" [] ch = "o" -> "O" [] ch = "n" -> "N" [] OTHER -> ch

RECURSIVE UpToDot(_)
\* upper.split(".")[0]
UpToDot(s) == IF s = <<>> \/ Head(s) = "." THEN <<>> ELSE <<Head(s)>> \o UpToDot(Tail(s))

isWindowsReservedDeviceName(value) ==
    LET trimmed == StripTrailing(Trim(value), {".", " "})
        upper == [i \in 1 .. Len(trimmed) |-> UpperOf(trimmed[i])]
        base == UpToDot(upper)
    IN IF trimmed = <<>> THEN FALSE
       ELSE \/ base \in {<<"C", "O", "N">>, <<"P", "R", "N">>, <<"A", "U", "X">>,
                         <<"N", "U", "L">>}
            \/ /\ Len(base) = 4
               /\ SubSeq(base, 1, 3) \in {<<"C", "O", "M">>, <<"L", "P", "T">>}
               /\ base[4] \in Digits \ {"0"}

SegmentIllegalChars == {"\\", "/", "<", ">", ":", "\"", "|", "?", "*"}

\* sanitizeFolderSegment: [ok, v]; ok is FALSE where the code returns null
sanitizeFolderSegment(value) ==
    LET raw == Trim(value)
        replaced == [i \in 1 .. Len(raw) |->
                        IF raw[i] \in SegmentIllegalChars THEN "-" ELSE raw[i]]
        collapsed == CollapseRunsOf(CollapseRunsOf(replaced, " "), "-")
        ends == StripTrailing(StripLeading(collapsed, {" ", ".", "-"}), {" ", ".", "-"})
        sanitized == Trim(StripTrailing(ends, {".", " "}))
        capped == StripTrailing(Trim(Take(sanitized, MaxSegmentLen)), {".", " "})
    IN IF raw = <<>> THEN NoSubpath
       ELSE IF sanitized \in {<<>>, <<".">>, <<".", ".">>} THEN NoSubpath
       ELSE IF capped \in {<<>>, <<".">>, <<".", ".">>} THEN NoSubpath
       ELSE IF isWindowsReservedDeviceName(capped)
       THEN [ok |-> TRUE, v |-> capped \o <<"-", "b", "o", "x">>]
       ELSE [ok |-> TRUE, v |-> capped]

\* ---- the entries of a zettel-box array
\* an entry is a string, or an object with the keys name, zettelBoxName and
\* zettelBox (itself [t, name]), or a value that is neither
NoNested == [t |-> "undef", name |-> Undefined]
BoxObject(name, zettelBoxName, nested) ==
    [t |-> "obj", v |-> <<>>, name |-> name, zettelBoxName |-> zettelBoxName,
     zettelBox |-> nested]
BoxString(s) ==
    [t |-> "str", v |-> s, name |-> Undefined, zettelBoxName |-> Undefined,
     zettelBox |-> NoNested]
BoxOther(t) ==
    [t |-> t, v |-> <<>>, name |-> Undefined, zettelBoxName |-> Undefined,
     zettelBox |-> NoNested]
\* an array of entries, or a value that is no array
BoxArray(items) == [t |-> "arr", items |-> items]
NoBoxes == [t |-> "undef", items |-> <<>>]

NoName == [ok |-> FALSE, v |-> <<>>]
Named(s) == [ok |-> TRUE, v |-> s]
\* typeof x === "string" && x.trim()
IsNonBlankString(x) == x.t = "str" /\ Trim(x.v) # <<>>

extractNameFromBoxEntry_anyString(entry) ==
    IF entry.t = "str"
    THEN IF Trim(entry.v) = <<>> THEN NoName ELSE Named(Trim(entry.v))
    ELSE IF entry.t # "obj" THEN NoName
    ELSE IF IsNonBlankString(entry.name) THEN Named(Trim(entry.name.v))
    ELSE IF IsNonBlankString(entry.zettelBoxName) THEN Named(Trim(entry.zettelBoxName.v))
    ELSE IF entry.zettelBox.t = "obj" /\ IsNonBlankString(entry.zettelBox.name)
    THEN Named(Trim(entry.zettelBox.name.v))
    ELSE NoName

extractNameFromBoxEntry(entry) ==
    IF entry.t = "str"
    THEN IF Trim(entry.v) = <<>> THEN NoName
         ELSE IF looksLikeLikelyId(Trim(entry.v)) THEN NoName
         ELSE Named(Trim(entry.v))
    ELSE IF entry.t # "obj" THEN NoName
    ELSE IF IsNonBlankString(entry.name) THEN Named(Trim(entry.name.v))
    ELSE IF IsNonBlankString(entry.zettelBoxName) THEN Named(Trim(entry.zettelBoxName.v))
    ELSE IF entry.zettelBox.t = "obj" /\ IsNonBlankString(entry.zettelBox.name)
    THEN Named(Trim(entry.zettelBox.name.v))
    ELSE NoName

RECURSIVE FirstNameOf(_)
\* the loop of extractFirstBoxName
FirstNameOf(items) ==
    IF items = <<>> THEN NoName
    ELSE IF extractNameFromBoxEntry(Head(items)).ok
    THEN extractNameFromBoxEntry(Head(items))
    ELSE FirstNameOf(Tail(items))

extractFirstBoxName(value) ==
    IF value.t # "arr" THEN NoName ELSE FirstNameOf(value.items)

extractFirstZettelBoxName(noteData) ==
    LET a == extractFirstBoxName(noteData.zettelboxexes)
        b == extractFirstBoxName(noteData.zettelBoxexes)
        c == extractFirstBoxName(noteData.zettelBoxExes)
        fromExes == IF a.ok THEN a ELSE IF b.ok THEN b ELSE c
    IN IF fromExes.ok THEN fromExes
       ELSE IF noteData.zettelBoxes.t = "arr"
       THEN FirstNameOf(SelectSeq(noteData.zettelBoxes.items,
                                  LAMBDA entry : entry.t # "str"))
       ELSE NoName

resolveZettelBoxFolderSegment(noteData, enabled) ==
    IF ~enabled THEN NoSubpath
    ELSE LET rawName == extractFirstZettelBoxName(noteData)
         IN IF ~rawName.ok THEN NoSubpath ELSE sanitizeFolderSegment(rawName.v)


\* ------------------------------------------------- the folders of one note
Rep(ch, n) == [i \in 1 .. n |-> ch]
UuidValue ==
    Rep("a", 8) \o <<"-">> \o Rep("1", 4) \o <<"-">> \o Rep("B", 4) \o <<"-">>
    \o Rep("0", 4) \o <<"-">> \o Rep("f", 12)
Hex32Value == Rep("A", 16) \o Rep("9", 16)
EightDigits == Rep("1", 8)
SevenDigits == Rep("1", 7)
BoxName == <<"P", "r", "o">>

\* strings the three rules of looksLikeLikelyId accept, bare and padded
IdShapedValues ==
    {UuidValue, Hex32Value, EightDigits, Rep("7", 12), <<" ">> \o EightDigits \o <<" ">>}
\* strings they turn down
NameValues ==
    {BoxName, SevenDigits, Rep("g", 32), EightDigits \o <<".">>, <<"a", "/", "b", " ", ".">>,
     <<"c", "o", "n">>, <<".", ".">>}

BoxEntries ==
    {BoxString(s) : s \in IdShapedValues \cup NameValues \cup {<<>>}}
    \cup {BoxObject(StrVal(BoxName), Undefined, NoNested),
          BoxObject(Undefined, StrVal(<<"Z">>), NoNested),
          BoxObject(StrVal(<<" ">>), Undefined, [t |-> "obj", name |-> StrVal(<<"N">>)]),
          BoxObject(Undefined, Undefined, NoNested),
          BoxObject(StrVal(EightDigits), Undefined, NoNested),
          BoxOther("null"), BoxOther("num")}

BoxArrays ==
    {NoBoxes, [t |-> "str", items |-> <<>>], BoxArray(<<>>)}
    \cup {BoxArray(<<e>>) : e \in BoxEntries}
    \cup {BoxArray(<<BoxString(id), e>>) :
            id \in {UuidValue, EightDigits},
            e \in {BoxString(BoxName), BoxString(Hex32Value),
                   BoxObject(StrVal(BoxName), Undefined, NoNested)}}

\* the zettel-box keys of a note: one of the four keys carries an array
BoxFields ==
    {[zettelboxexes |-> a, zettelBoxexes |-> NoBoxes, zettelBoxExes |-> NoBoxes,
      zettelBoxes |-> NoBoxes] : a \in BoxArrays}
    \cup {[zettelboxexes |-> NoBoxes, zettelBoxexes |-> NoBoxes, zettelBoxExes |-> a,
           zettelBoxes |-> NoBoxes] : a \in {BoxArray(<<BoxString(BoxName)>>),
                                              BoxArray(<<BoxString(UuidValue)>>)}}
    \cup {[zettelboxexes |-> NoBoxes, zettelBoxexes |-> NoBoxes, zettelBoxExes |-> NoBoxes,
           zettelBoxes |-> a] : a \in BoxArrays}
    \cup {[zettelboxexes |-> BoxArray(<<BoxString(EightDigits)>>),
           zettelBoxexes |-> NoBoxes, zettelBoxExes |-> NoBoxes,
           zettelBoxes |-> BoxArray(<<BoxObject(StrVal(BoxName), Undefined, NoNested)>>)]}

RoutedTypes ==
    {Undefined, NumVal(<<"1">>), StrVal(<<>>), StrVal(NoteType), StrVal(Crawl),
     StrVal(<<" ", "C", "r", "a", "w", "l">>), StrVal(<<"x">>)}
\* settings.typeFolders is what normalizeTypeFoldersSettings made of the
\* stored value; the settings tab keeps the two names sanitised and apart
RoutedTypeFolders ==
    {normalizeTypeFoldersSettings(v) :
        v \in TypeFoldersInputs
              \cup {TypeFoldersJson("obj", BoolTrue, StrVal(<<"a">>), StrVal(<<"a">>)),
                    TypeFoldersJson("obj", BoolTrue, StrVal(DefaultMaterialFolder),
                                    Undefined),
                    TypeFoldersJson("obj", BoolTrue, StrVal(<<"a", "/", "b">>),
                                    StrVal(<<"a">>)),
                    TypeFoldersJson("obj", BoolFalse, StrVal(<<"a">>), StrVal(<<"a">>))}}

InitRouting ==
    /\ Unstarted
    /\ pd = NotLoaded
    /\ dn = NoDailyRun
    /\ dd = NoDatesRun
    /\ pu = NoPushRun
    /\ \E typeFolders \in RoutedTypeFolders, zettelEnabled \in BOOLEAN,
          type \in RoutedTypes, fmType \in {Undefined, StrVal(Crawl)},
          boxes \in BoxFields :
          pr = [phase |-> "ready", kind |-> "route",
                baseDir |-> <<FolderSeg(DefaultDir)>>,
                typeFolders |-> typeFolders, zettelEnabled |-> zettelEnabled,
                noteData |-> [type |-> type,
                              content |-> [fm |-> [EmptyFm EXCEPT !["type"] = fmType]],
                              zettelboxexes |-> boxes.zettelboxexes,
                              zettelBoxexes |-> boxes.zettelBoxexes,
                              zettelBoxExes |-> boxes.zettelBoxExes,
                              zettelBoxes |-> boxes.zettelBoxes],
                categoryBaseDir |-> <<>>, zettelBoxFolder |-> NoSubpath,
                noteBaseDir |-> <<>>]

\* processApiResponse from the type of a note to its noteBaseDir
RouteNote ==
    /\ pr.phase = "ready"
    /\ pr.kind = "route"
    /\ LET typeValue == getNoteTypeForRouting(pr.noteData)
           categorization == categorizeDinoxType(typeValue)
           categoryBaseDir == resolveCategoryBaseDir(pr.baseDir, pr.typeFolders,
                                                     categorization.category)
           zettelBoxFolder == resolveZettelBoxFolderSegment(pr.noteData,
                                                            pr.zettelEnabled)
           noteBaseDir == IF zettelBoxFolder.ok
                          THEN Append(categoryBaseDir, FolderSeg(zettelBoxFolder.v))
                          ELSE categoryBaseDir
       IN pr' = [pr EXCEPT !.phase = "done",
                           !.categoryBaseDir = categoryBaseDir,
                           !.zettelBoxFolder = zettelBoxFolder,
                           !.noteBaseDir = noteBaseDir]
    /\ UNCHANGED <<isSyncing, settings, persisted, now, vault, trash, notices, started,
                   pc, pass, ops, pd, dn, dd, pu>>

SpecRouting == InitRouting /\ [][RouteNote]_vars


Routed == pr.phase = "done" /\ pr.kind = "route"
\* the type the note is routed by: its own, else that of its frontmatter
TypeOfRouted ==
    IF pr.noteData.type.t = "str" THEN pr.noteData.type
    ELSE pr.noteData.content.fm["type"]
\* the type reads "crawl", whatever its case and the blanks around it
IsCrawlType == TypeOfRouted.t = "str" /\ normalizeTypeValue(TypeOfRouted) = Crawl
NoteFolder ==
    pr.baseDir \o FoldersOf(getSanitizedTypeFolderNames(pr.typeFolders).note)
MaterialFolder ==
    pr.baseDir \o FoldersOf(getSanitizedTypeFolderNames(pr.typeFolders).material)

\* C39: with type folders disabled the base directory of every note is the
\* sync base directory whatever its type; with them enabled a note of type
\* "crawl" goes to the material folder and a note of any other type or of
\* none to the note folder, and the two folders are different directories.
C39_TypeFolderRouting ==
    Routed =>
        /\ ~pr.typeFolders.enabled => pr.categoryBaseDir = pr.baseDir
        /\ pr.typeFolders.enabled =>
              /\ IsCrawlType => pr.categoryBaseDir = MaterialFolder
              /\ ~IsCrawlType => pr.categoryBaseDir = NoteFolder
              /\ NoteFolder # MaterialFolder
              /\ NoteFolder # pr.baseDir /\ MaterialFolder # pr.baseDir

\* a note without a type of its own, its frontmatter saying crawl, went to
\* the material folder, which the stored settings had named like the note
\* folder
C39_Witness ==
    /\ Routed
    /\ pr.typeFolders.enabled
    /\ pr.typeFolders = normalizeTypeFoldersSettings(
                            TypeFoldersJson("obj", BoolTrue, StrVal(<<"a">>),
                                            StrVal(<<"a">>)))
    /\ pr.noteData.type = Undefined
    /\ IsCrawlType
    /\ pr.categoryBaseDir = <<FolderSeg(DefaultDir), FolderSeg(DefaultMaterialFolder)>>

\* with type folders disabled a crawl note stayed in the base directory
C39_WitnessDisabled ==
    /\ Routed
    /\ ~pr.typeFolders.enabled
    /\ IsCrawlType
    /\ pr.categoryBaseDir = pr.baseDir


\* the entries of the zettel-box arrays of the routed note
ItemsOf(value) == IF value.t = "arr" THEN {value.items[i] : i \in 1 .. Len(value.items)}
                  ELSE {}
RoutedEntries ==
    ItemsOf(pr.noteData.zettelboxexes) \cup ItemsOf(pr.noteData.zettelBoxexes)
    \cup ItemsOf(pr.noteData.zettelBoxExes) \cup ItemsOf(pr.noteData.zettelBoxes)
\* a zettel-box value that is an ID-shaped string
IdShapedEntry(e) == e.t = "str" /\ e.v \in IdShapedValues
\* the strings an entry carries
CarriedNames(e) ==
    IF e.t = "str" THEN {e.v}
    ELSE IF e.t = "obj"
    THEN {x.v : x \in {y \in {e.name, e.zettelBoxName, e.zettelBox.name} : y.t = "str"}}
    ELSE {}

C40_NameAfterId ==
    /\ Routed
    /\ pr.noteData.zettelboxexes = BoxArray(<<BoxString(UuidValue), BoxString(BoxName)>>)
    /\ pr.zettelBoxFolder = [ok |-> TRUE, v |-> BoxName]
    /\ pr.noteBaseDir = Append(pr.categoryBaseDir, FolderSeg(BoxName))


\* the pass of call c is in or past its note loop
Counting(c) == pc[c] \in {"process", "save"}
OneIf(cond) == IF cond THEN 1 ELSE 0

\* C38: the processed and deleted counts of a pass are the numbers of its
\* notes whose outcome was "processed" and "deleted": the loop starts from
\* zero, each note adds one to the count of its outcome and a skipped or
\* failed note to neither, nothing else moves the counts, and the pass
\* reports them as they stand when the loop is over.
C38_CountsAreOutcomes ==
    [][\A c \in Calls :
         /\ (~Counting(c) /\ Counting(c)')
               => pass'[c].processed = 0 /\ pass'[c].deleted = 0
         /\ Handled(c)
               => /\ pass'[c].processed = pass[c].processed
                         + OneIf(pass'[c].result.status = "processed")
                  /\ pass'[c].deleted = pass[c].deleted
                         + OneIf(pass'[c].result.status = "deleted")
         /\ (Counting(c) /\ Counting(c)' /\ ~Handled(c))
               => /\ pass'[c].processed = pass[c].processed
                  /\ pass'[c].deleted = pass[c].deleted
         /\ CompletesOk(c)
               => /\ pass'[c].processed = pass[c].processed
                  /\ pass'[c].deleted = pass[c].deleted]_vars

\* the loop is over with one note processed and the last one failed
C38_Witness ==
    \E c \in Calls :
       /\ pc[c] = "save"
       /\ pass[c].result.status = "error"
       /\ pass[c].processed = 1
       /\ pass[c].deleted = 0

====
